---- MODULE Spec2Model ----
(***************************************************************************)
(* A model of the FireFlyIII Telegram bot (bot/firefly.py, bot/handlers.py, *)
(* bot/models.py, bot/database.py).                                         *)
(*                                                                          *)
(* Python strings are sequences of one-symbol strings; None is NoneVal.     *)
(* Python dicts are functions whose DOMAIN is the set of keys present.      *)
(***************************************************************************)
EXTENDS Integers, Sequences, FiniteSets, TLC

NoneVal == <<"None">>
EmptyStr == <<>>

(***************************************************************************)
(* dict helpers                                                             *)
(***************************************************************************)
EmptyDict == [k \in {} |-> NoneVal]

DictPut(d, k, v) == [x \in (DOMAIN d) \cup {k} |-> IF x = k THEN v ELSE d[x]]

DictDel(d, k) == [x \in (DOMAIN d) \ {k} |-> d[x]]

Range(s) == {s[i] : i \in DOMAIN s}

RECURSIVE Flatten(_)
Flatten(ss) == IF ss = <<>> THEN <<>> ELSE Head(ss) \o Flatten(Tail(ss))

(***************************************************************************)
(* slugify (python-slugify with its default options), on the symbols the   *)
(* model's names are written with: the quote becomes a separator, accents   *)
(* are folded (unidecode), the text is lower-cased, every run of symbols    *)
(* other than letters, digits and '-' becomes one '-', and leading and      *)
(* trailing '-' are stripped.                                               *)
(***************************************************************************)
Unidecode(c) ==
    CASE c = "a'" -> "a"
      [] c = "A'" -> "A"
      [] c = "o'" -> "o"
      [] OTHER -> c

LowerCase(c) ==
    CASE c = "A" -> "a"
      [] c = "B" -> "b"
      [] c = "E" -> "e"
      [] c = "F" -> "f"
      [] c = "X" -> "x"
      [] c = "Z" -> "z"
      [] OTHER -> c

SlugAllowed == {"a", "b", "e", "f", "o", "x", "z", "0", "1", "2", "-"}

FoldChar(c) ==
    LET q == IF c = "'" THEN "-" ELSE c
        l == LowerCase(Unidecode(q))
    IN IF l \in SlugAllowed THEN l ELSE "-"

RECURSIVE CollapseDashes(_)
CollapseDashes(s) ==
    IF Len(s) < 2 THEN s
    ELSE IF s[1] = "-" /\ s[2] = "-" THEN CollapseDashes(Tail(s))
    ELSE <<s[1]>> \o CollapseDashes(Tail(s))

RECURSIVE StripLeft(_)
StripLeft(s) == IF s # <<>> /\ Head(s) = "-" THEN StripLeft(Tail(s)) ELSE s

RECURSIVE StripRight(_)
StripRight(s) ==
    IF s # <<>> /\ s[Len(s)] = "-" THEN StripRight(SubSeq(s, 1, Len(s) - 1)) ELSE s

slugify(text) ==
    StripRight(StripLeft(CollapseDashes([i \in 1..Len(text) |-> FoldChar(text[i])])))

(***************************************************************************)
(* safe_math_eval: the allow-list check, then Python's eval on the string.  *)
(* Numbers are exact rationals n/d (d > 0) with a flag f for float; the    *)
(* empty tuple "()" is a value of its own.  A syntax error is found before  *)
(* anything is evaluated; a run-time error is the first one in evaluation   *)
(* order.  Floats are kept exact, so the last-bit rounding of binary floats *)
(* (2//.2 is 9.0 in Python, 10 here) is not modelled.                       *)
(***************************************************************************)
allowed_chars == {"0", "1", "2", "3", "4", "5", "6", "7", "8", "9",
                  "+", "-", "*", "(", ")", ".", " ", "/"}

Digits == {"0", "1", "2", "3", "4", "5", "6", "7", "8", "9"}

DigitVal(c) ==
    CASE c = "0" -> 0 [] c = "1" -> 1 [] c = "2" -> 2 [] c = "3" -> 3
      [] c = "4" -> 4 [] c = "5" -> 5 [] c = "6" -> 6 [] c = "7" -> 7
      [] c = "8" -> 8 [] c = "9" -> 9

IsDigit(c) == c \in Digits

AbsInt(n) == IF n < 0 THEN -n ELSE n

RECURSIVE GCD(_, _)
GCD(a, b) == IF b = 0 THEN a ELSE GCD(b, a % b)

\* the number n/d in lowest terms with a positive denominator
MkNum(n, d, f) ==
    LET s == IF d < 0 THEN -1 ELSE 1
        g == GCD(AbsInt(n), AbsInt(d))
    IN [k |-> "num", n |-> (s * n) \div g, d |-> (s * d) \div g, f |-> f, exc |-> ""]

TupleVal == [k |-> "tuple", n |-> 0, d |-> 1, f |-> FALSE, exc |-> ""]

\* the value of the literal "..."
EllipsisVal == [k |-> "ellipsis", n |-> 0, d |-> 1, f |-> FALSE, exc |-> ""]

\* a float whose value is not rational (x ** y with y not integral)
ApproxVal == [k |-> "approx", n |-> 0, d |-> 1, f |-> TRUE, exc |-> ""]

ComplexVal == [k |-> "complex", n |-> 0, d |-> 1, f |-> TRUE, exc |-> ""]

ExcVal(e) == [k |-> "exc", n |-> 0, d |-> 1, f |-> FALSE, exc |-> e]

RECURSIVE DigitsValue(_)
DigitsValue(ds) ==
    IF ds = <<>> THEN 0
    ELSE 10 * DigitsValue(SubSeq(ds, 1, Len(ds) - 1)) + DigitVal(ds[Len(ds)])

RECURSIVE Pow10(_)
Pow10(k) == IF k = 0 THEN 1 ELSE 10 * Pow10(k - 1)

RECURSIVE NumberEnd(_, _)
NumberEnd(s, i) ==
    IF i <= Len(s) /\ (IsDigit(s[i]) \/ s[i] = ".") THEN NumberEnd(s, i + 1) ELSE i

OpToken(t) == [t |-> t, n |-> 0, d |-> 1, f |-> FALSE]

\* one NUMBER literal: 12, 00, 1.5, 1., .5; not 012, not a lone '.', not 1.2.3;
\* a run that is exactly "..." is the Ellipsis literal
NumberToken(run) ==
    LET digs == SelectSeq(run, IsDigit)
        dots == Len(run) - Len(digs)
        dotpos == CHOOSE i \in 1..Len(run) : run[i] = "."
    IN IF run = <<".", ".", ".">> THEN OpToken("ellipsis")
       ELSE IF dots = 0
       THEN IF Len(run) > 1 /\ run[1] = "0" /\ DigitsValue(run) # 0
            THEN OpToken("bad")
            ELSE [t |-> "num", n |-> DigitsValue(run), d |-> 1, f |-> FALSE]
       ELSE IF dots = 1 /\ Len(digs) >= 1
            THEN [t |-> "num", n |-> DigitsValue(digs),
                  d |-> Pow10(Len(run) - dotpos), f |-> TRUE]
            ELSE OpToken("bad")

RECURSIVE Tokenize(_, _)
Tokenize(s, i) ==
    IF i > Len(s) THEN <<>>
    ELSE IF s[i] = " " THEN Tokenize(s, i + 1)
    ELSE IF IsDigit(s[i]) \/ s[i] = "."
         THEN <<NumberToken(SubSeq(s, i, NumberEnd(s, i) - 1))>>
                  \o Tokenize(s, NumberEnd(s, i))
    ELSE IF s[i] = "*" /\ i < Len(s) /\ s[i + 1] = "*"
         THEN <<OpToken("**")>> \o Tokenize(s, i + 2)
    ELSE IF s[i] = "/" /\ i < Len(s) /\ s[i + 1] = "/"
         THEN <<OpToken("//")>> \o Tokenize(s, i + 2)
    ELSE <<OpToken(s[i])>> \o Tokenize(s, i + 1)

RECURSIVE IntPow(_, _)
IntPow(b, e) == IF e = 0 THEN 1 ELSE b * IntPow(b, e - 1)

FloorDiv(a, b) == IF b > 0 THEN a \div b ELSE (-a) \div (-b)

NumBinOp(op, a, b) ==
    LET fl == a.f \/ b.f IN
    CASE op = "+" -> MkNum(a.n * b.d + b.n * a.d, a.d * b.d, fl)
      [] op = "-" -> MkNum(a.n * b.d - b.n * a.d, a.d * b.d, fl)
      [] op = "*" -> MkNum(a.n * b.n, a.d * b.d, fl)
      [] op = "/" -> IF b.n = 0 THEN ExcVal("ZeroDivisionError")
                     ELSE MkNum(a.n * b.d, a.d * b.n, TRUE)
      [] op = "//" -> IF b.n = 0 THEN ExcVal("ZeroDivisionError")
                      ELSE MkNum(FloorDiv(a.n * b.d, a.d * b.n), 1, fl)
      [] op = "**" ->
           IF b.d = 1
           THEN IF b.n >= 0
                THEN MkNum(IntPow(a.n, b.n), IntPow(a.d, b.n), fl)
                ELSE IF a.n = 0 THEN ExcVal("ZeroDivisionError")
                     ELSE MkNum(IntPow(a.d, -b.n), IntPow(a.n, -b.n), TRUE)
           ELSE IF a.n > 0 THEN ApproxVal
                ELSE IF a.n < 0 THEN ComplexVal
                ELSE IF b.n > 0 THEN MkNum(0, 1, TRUE)
                ELSE ExcVal("ZeroDivisionError")

\* left operand, right operand, then the operation (Python's evaluation order)
BinOp(op, a, b) ==
    IF a.k = "exc" THEN a
    ELSE IF b.k = "exc" THEN b
    ELSE IF "ellipsis" \in {a.k, b.k} THEN ExcVal("TypeError")
    ELSE IF a.k = "tuple" \/ b.k = "tuple"
         THEN IF op = "+" /\ a.k = "tuple" /\ b.k = "tuple" THEN TupleVal
              ELSE IF op = "*" /\ a.k = "tuple" /\ b.k = "num" /\ ~b.f THEN TupleVal
              ELSE IF op = "*" /\ b.k = "tuple" /\ a.k = "num" /\ ~a.f THEN TupleVal
              ELSE ExcVal("TypeError")
    ELSE IF a.k = "num" /\ b.k = "num" THEN NumBinOp(op, a, b)
    ELSE IF op \in {"/", "//"} /\ b.k = "num" /\ b.n = 0 THEN ExcVal("ZeroDivisionError")
    ELSE IF op = "//" /\ "complex" \in {a.k, b.k} THEN ExcVal("TypeError")
    ELSE IF "complex" \in {a.k, b.k} THEN ComplexVal
    ELSE ApproxVal

UnaryOp(op, v) ==
    IF v.k = "exc" THEN v
    ELSE IF v.k \in {"tuple", "ellipsis"} THEN ExcVal("TypeError")
    ELSE IF v.k = "num" /\ op = "-" THEN MkNum(-v.n, v.d, v.f)
    ELSE v

\* callee, argument, then the call: no value of these expressions is callable
CallOp(callee, arg) ==
    IF callee.k = "exc" THEN callee
    ELSE IF arg.k = "exc" THEN arg
    ELSE ExcVal("TypeError")

ParseOk(v, pos) == [st |-> "ok", v |-> v, pos |-> pos]

ParseFail == [st |-> "SyntaxError", v |-> TupleVal, pos |-> 0]

TokAt(toks, i) == IF i <= Len(toks) THEN toks[i].t ELSE "EOF"

\* The recursive-descent parser of the expression grammar, one operator for
\* all nonterminals: nt names the nonterminal, acc is the left operand of the
\* loops ("arith_loop", "term_loop", "trailer_loop") and unused elsewhere.
RECURSIVE Parse(_, _, _, _)
Parse(nt, toks, acc, i) ==
    CASE nt = "arith" ->
           LET l == Parse("term", toks, acc, i)
           IN IF l.st # "ok" THEN l ELSE Parse("arith_loop", toks, l.v, l.pos)
      [] nt = "arith_loop" ->
           IF TokAt(toks, i) \in {"+", "-"}
           THEN LET r == Parse("term", toks, acc, i + 1)
                IN IF r.st # "ok" THEN r
                   ELSE Parse("arith_loop", toks, BinOp(TokAt(toks, i), acc, r.v), r.pos)
           ELSE ParseOk(acc, i)
      [] nt = "term" ->
           LET l == Parse("factor", toks, acc, i)
           IN IF l.st # "ok" THEN l ELSE Parse("term_loop", toks, l.v, l.pos)
      [] nt = "term_loop" ->
           IF TokAt(toks, i) \in {"*", "/", "//"}
           THEN LET r == Parse("factor", toks, acc, i + 1)
                IN IF r.st # "ok" THEN r
                   ELSE Parse("term_loop", toks, BinOp(TokAt(toks, i), acc, r.v), r.pos)
           ELSE ParseOk(acc, i)
      [] nt = "factor" ->
           IF TokAt(toks, i) \in {"+", "-"}
           THEN LET r == Parse("factor", toks, acc, i + 1)
                IN IF r.st # "ok" THEN r
                   ELSE ParseOk(UnaryOp(TokAt(toks, i), r.v), r.pos)
           ELSE Parse("power", toks, acc, i)
      [] nt = "power" ->
           LET b == Parse("primary", toks, acc, i)
           IN IF b.st # "ok" THEN b
              ELSE IF TokAt(toks, b.pos) = "**"
                   THEN LET e == Parse("factor", toks, acc, b.pos + 1)
                        IN IF e.st # "ok" THEN e
                           ELSE ParseOk(BinOp("**", b.v, e.v), e.pos)
                   ELSE b
      [] nt = "primary" ->
           LET a == Parse("atom", toks, acc, i)
           IN IF a.st # "ok" THEN a ELSE Parse("trailer_loop", toks, a.v, a.pos)
      [] nt = "trailer_loop" ->
           IF TokAt(toks, i) = "("
           THEN IF TokAt(toks, i + 1) = ")"
                THEN Parse("trailer_loop", toks, CallOp(acc, TupleVal), i + 2)
                ELSE LET \* f(x), f(*x) and f(**x) are all calls with one argument
                         from == IF TokAt(toks, i + 1) \in {"*", "**"}
                                 THEN i + 2 ELSE i + 1
                         a == Parse("arith", toks, acc, from)
                     IN IF a.st # "ok" THEN a
                        ELSE IF TokAt(toks, a.pos) = ")"
                             THEN Parse("trailer_loop", toks, CallOp(acc, a.v), a.pos + 1)
                             ELSE ParseFail
           ELSE ParseOk(acc, i)
      [] nt = "atom" ->
           IF TokAt(toks, i) = "num"
           THEN ParseOk(MkNum(toks[i].n, toks[i].d, toks[i].f), i + 1)
           ELSE IF TokAt(toks, i) = "ellipsis" THEN ParseOk(EllipsisVal, i + 1)
           ELSE IF TokAt(toks, i) = "("
                THEN IF TokAt(toks, i + 1) = ")" THEN ParseOk(TupleVal, i + 2)
                     ELSE LET e == Parse("arith", toks, acc, i + 1)
                          IN IF e.st # "ok" THEN e
                             ELSE IF TokAt(toks, e.pos) = ")"
                                  THEN ParseOk(e.v, e.pos + 1)
                                  ELSE ParseFail
                ELSE ParseFail

\* Python's eval(string) for a string of allowed characters
py_eval(string) ==
    LET toks == Tokenize(string, 1)
        r == Parse("arith", toks, TupleVal, 1)
    IN IF toks = <<>> \/ \E i \in 1..Len(toks) : toks[i].t = "bad"
       THEN ExcVal("SyntaxError")
       ELSE IF r.st # "ok" \/ r.pos # Len(toks) + 1 THEN ExcVal("SyntaxError")
       ELSE r.v

\* variant: the expression is evaluated without the test of its characters
unchecked_eval(string) == py_eval(string)

safe_math_eval(string) ==
    IF \E i \in 1..Len(string) : string[i] \notin allowed_chars
    THEN ExcVal("Exception")
    ELSE py_eval(string)

(***************************************************************************)
(* State.                                                                   *)
(*   ff_bot    the FireFlyTelegram instance: its ten per-user dictionaries   *)
(*   session   the rows of table session, keyed by user_id                   *)
(*   data      the rows of table data (JSON text columns), keyed by user_id  *)
(*   next_step the next-step handler registered with the transport per user  *)
(*   inbox     the update delivered by the transport and not yet handled     *)
(*   op        what the handler of the current update did: the replies it    *)
(*             sent, the ledger requests it made, the exception it ended by  *)
(*   workers   the handler each worker thread is running and the statement   *)
(*             it is at (used when two handlers are in flight)               *)
(***************************************************************************)
VARIABLES ff_bot, session, data, next_step, inbox, op, workers

vars == <<ff_bot, session, data, next_step, inbox, op, workers>>

(***************************************************************************)
(* database.py: json.dumps / json.loads of a list of str and of a dict of   *)
(* str to str.  A non-ASCII symbol is written as an escape.                 *)
(***************************************************************************)
NonAscii == {"a'", "A'", "o'"}

JsonChar(c) == IF c \in NonAscii THEN <<"\\u", c>> ELSE <<c>>

json_string(s) == <<"\"">> \o Flatten([i \in 1..Len(s) |-> JsonChar(s[i])]) \o <<"\"">>

RECURSIVE JoinWith(_, _)
JoinWith(sep, parts) ==
    IF parts = <<>> THEN <<>>
    ELSE IF Len(parts) = 1 THEN parts[1]
    ELSE parts[1] \o sep \o JoinWith(sep, Tail(parts))

json_dumps_list(l) ==
    <<"[">> \o JoinWith(<<",">>, [i \in 1..Len(l) |-> json_string(l[i])]) \o <<"]">>

RECURSIVE DictItems(_)
DictItems(d) ==
    IF DOMAIN d = {} THEN <<>>
    ELSE LET k == CHOOSE x \in DOMAIN d : TRUE
         IN <<<<k, d[k]>>>> \o DictItems(DictDel(d, k))

JsonItem(kv) == json_string(kv[1]) \o <<":">> \o json_string(kv[2])

json_dumps_dict(d) ==
    <<"{">> \o JoinWith(<<",">>, [i \in 1..Cardinality(DOMAIN d) |->
                                JsonItem(DictItems(d)[i])]) \o <<"}">>

RECURSIVE ReadString(_, _, _)
ReadString(t, i, acc) ==
    IF t[i] = "\"" THEN [val |-> acc, pos |-> i + 1]
    ELSE IF t[i] = "\\u" THEN ReadString(t, i + 2, Append(acc, t[i + 1]))
    ELSE ReadString(t, i + 1, Append(acc, t[i]))

RECURSIVE ReadList(_, _, _)
ReadList(t, i, acc) ==
    IF t[i] = "]" THEN acc
    ELSE IF t[i] = "," THEN ReadList(t, i + 1, acc)
    ELSE LET r == ReadString(t, i + 1, <<>>) IN ReadList(t, r.pos, Append(acc, r.val))

json_loads_list(t) == ReadList(t, 2, <<>>)

RECURSIVE ReadDict(_, _, _)
ReadDict(t, i, acc) ==
    IF t[i] = "}" THEN acc
    ELSE IF t[i] = "," THEN ReadDict(t, i + 1, acc)
    ELSE LET key == ReadString(t, i + 1, <<>>)
             val == ReadString(t, key.pos + 2, <<>>)
         IN ReadDict(t, val.pos, DictPut(acc, key.val, val.val))

json_loads_dict(t) == ReadDict(t, 2, EmptyDict)

ListFields == {"categories", "source_accounts", "destination_accounts",
               "asset_accounts", "expense_accounts", "revenue_accounts"}

DataFields == ListFields \cup {"account_ids"}

SessionFields == {"ff_url", "ff_api", "default_accounts"}

\* SELECT ... FROM session WHERE user_id = ?  (fetchone)
db_get_session(tbl, user_id) ==
    IF user_id \in DOMAIN tbl THEN [found |-> TRUE, row |-> tbl[user_id]]
    ELSE [found |-> FALSE, row |-> [ff_url |-> NoneVal, ff_api |-> NoneVal,
                                   default_account |-> NoneVal]]

\* REPLACE INTO session
db_save_session(tbl, user_id, url, api, default_account) ==
    DictPut(tbl, user_id, [ff_url |-> url, ff_api |-> api,
                           default_account |-> default_account])

\* SELECT ... FROM data WHERE user_id = ?, each column through json.loads
db_get_data(tbl, user_id) ==
    IF user_id \in DOMAIN tbl
    THEN [found |-> TRUE,
          row |-> [f \in DataFields |->
                     IF f = "account_ids" THEN json_loads_dict(tbl[user_id][f])
                     ELSE json_loads_list(tbl[user_id][f])]]
    ELSE [found |-> FALSE, row |-> [f \in DataFields |-> <<>>]]

\* variant: INSERT OR IGNORE, which keeps the row the user already has
db_insert_data(tbl, user_id, snap) ==
    IF user_id \in DOMAIN tbl THEN tbl
    ELSE DictPut(tbl, user_id,
                 [f \in DataFields |->
                    IF f = "account_ids" THEN json_dumps_dict(snap[f])
                    ELSE json_dumps_list(snap[f])])

\* REPLACE INTO data, each column through json.dumps
db_save_data(tbl, user_id, snap) ==
    DictPut(tbl, user_id,
            [f \in DataFields |->
               IF f = "account_ids" THEN json_dumps_dict(snap[f])
               ELSE json_dumps_list(snap[f])])

(***************************************************************************)
(* firefly.py: the per-user dictionaries of FireFlyTelegram                 *)
(***************************************************************************)
NewBot == [f \in SessionFields \cup DataFields |-> EmptyDict]

clear_user_session(b, user_id) ==
    [f \in DOMAIN b |-> IF f \in SessionFields THEN DictDel(b[f], user_id) ELSE b[f]]

\* variant: the seven dictionaries are emptied, for every user
clear_all_data(b, user_id) ==
    [f \in DOMAIN b |-> IF f \in DataFields THEN EmptyDict ELSE b[f]]

clear_user_data(b, user_id) ==
    [f \in DOMAIN b |-> IF f \in DataFields THEN DictDel(b[f], user_id) ELSE b[f]]

\* variant: the stored session is not read
load_no_session(b, tbl, user_id) == b

load_session(b, tbl, user_id) ==
    LET s == db_get_session(tbl, user_id)
    IN IF s.found
       THEN [b EXCEPT !.ff_url = DictPut(@, user_id, s.row.ff_url),
                      !.ff_api = DictPut(@, user_id, s.row.ff_api),
                      !.default_accounts = DictPut(@, user_id, s.row.default_account)]
       ELSE b

load_data(b, tbl, user_id) ==
    LET r == db_get_data(tbl, user_id)
    IN IF r.found
       THEN [f \in DOMAIN b |->
               IF f \in DataFields THEN DictPut(b[f], user_id, r.row[f]) ELSE b[f]]
       ELSE b

\* fills the missing session entries with '' and writes the row
save_session(b, tbl, user_id) ==
    LET b1 == [f \in DOMAIN b |->
                 IF f \in SessionFields /\ user_id \notin DOMAIN b[f]
                 THEN DictPut(b[f], user_id, EmptyStr) ELSE b[f]]
    IN [bot |-> b1,
        session |-> db_save_session(tbl, user_id, b1.ff_url[user_id],
                                    b1.ff_api[user_id], b1.default_accounts[user_id])]

\* called with all seven entries of the user present
save_data(b, tbl, user_id) ==
    db_save_data(tbl, user_id, [f \in DataFields |-> b[f][user_id]])

(***************************************************************************)
(* get_ff_data.  A reply of the ledger to a paginated GET is the sequence   *)
(* of its page responses; a response is ok (a JSON body with 'data' and     *)
(* 'meta') or not (network error, no JSON, a missing key).  A page past the  *)
(* last one is empty.  An item is well formed (shape "ok") or lacks a key.  *)
(***************************************************************************)
PageAt(reply, page) ==
    IF page <= Len(reply) THEN reply[page]
    ELSE [ok |-> TRUE, data |-> <<>>, total_pages |-> 0]

RECURSIVE FetchPages(_, _, _, _, _)
FetchPages(reply, page, total_pages, acc, requested) ==
    IF page > total_pages THEN [ok |-> TRUE, data |-> acc, requested |-> requested]
    ELSE IF ~PageAt(reply, page).ok
         THEN [ok |-> FALSE, data |-> <<>>, requested |-> Append(requested, page)]
         ELSE FetchPages(reply, page + 1, total_pages,
                         acc \o PageAt(reply, page).data, Append(requested, page))

\* variant: page 1 only, whatever it announces
fetch_first_page(reply) ==
    IF ~reply[1].ok THEN [ok |-> FALSE, data |-> <<>>, requested |-> <<1>>]
    ELSE [ok |-> TRUE, data |-> reply[1].data, requested |-> <<1>>]

\* page 1, then pages 2..total_pages as page 1 announced them
fetch_all_pages(reply) ==
    IF ~reply[1].ok THEN [ok |-> FALSE, data |-> <<>>, requested |-> <<1>>]
    ELSE FetchPages(reply, 2, reply[1].total_pages, reply[1].data, <<1>>)

ItemName(item) == item.name

\* [item['attributes'][attribute_name] for item in data]
extract_attributes(items) ==
    IF \E i \in 1..Len(items) : items[i].shape # "ok"
    THEN [ok |-> FALSE, val |-> <<>>]
    ELSE [ok |-> TRUE, val |-> [i \in 1..Len(items) |-> ItemName(items[i])]]

\* {acc['attributes']['name']: acc['id'] for acc in accounts_data}
RECURSIVE AccountIdsOf(_, _)
AccountIdsOf(accounts, acc) ==
    IF accounts = <<>> THEN acc
    ELSE AccountIdsOf(Tail(accounts), DictPut(acc, Head(accounts).name, Head(accounts).id))

\* [acc['attributes']['name'] for acc in accounts_data if acc['attributes']['type'] in types]
RECURSIVE NamesOfType(_, _)
NamesOfType(accounts, types) ==
    IF accounts = <<>> THEN <<>>
    ELSE IF Head(accounts).type \in types
         THEN <<Head(accounts).name>> \o NamesOfType(Tail(accounts), types)
         ELSE NamesOfType(Tail(accounts), types)

\* a source list that takes every account
SourceTypesAll == {"revenue", "asset", "expense"}

SourceTypes == {"revenue", "asset"}

DestinationTypes == {"expense", "asset"}

\* the result of get_ff_data: st is "ok" (saved), "logged" (the except branch) or
\* "raise" (an exception outside the try)
RefreshResult(st, exc, b, tbl) == [st |-> st, exc |-> exc, bot |-> b, data |-> tbl]

\* a refresh whose except branch saves what memory holds
LoggedFailureSaving(b, tbl, user) ==
    RefreshResult("logged", "", b,
                  IF \A f \in DataFields : user \in DOMAIN b[f]
                  THEN save_data(b, tbl, user) ELSE tbl)

\* lines 171-172: the except branch logs the error and writes nothing
LoggedFailure(b, tbl, user) == RefreshResult("logged", "", b, tbl)

get_ff_data(b, tbl, user, cat_reply, acc_reply) ==
    IF user \notin DOMAIN b.ff_api THEN RefreshResult("raise", "KeyError", b, tbl)
    ELSE IF user \notin DOMAIN b.ff_url \/ b.ff_url[user] = EmptyStr
         THEN LoggedFailure(b, tbl, user)
    ELSE
    LET cats == fetch_all_pages(cat_reply)
        names == extract_attributes(cats.data)
        b1 == [b EXCEPT !.categories = DictPut(@, user, names.val)]
        accs == fetch_all_pages(acc_reply)
        b2 == [b1 EXCEPT !.account_ids = DictPut(@, user, AccountIdsOf(accs.data, EmptyDict))]
        b3 == [b2 EXCEPT
                 !.source_accounts = DictPut(@, user, NamesOfType(accs.data, SourceTypes)),
                 !.destination_accounts =
                     DictPut(@, user, NamesOfType(accs.data, DestinationTypes)),
                 !.asset_accounts = DictPut(@, user, NamesOfType(accs.data, {"asset"})),
                 !.expense_accounts = DictPut(@, user, NamesOfType(accs.data, {"expense"})),
                 !.revenue_accounts = DictPut(@, user, NamesOfType(accs.data, {"revenue"}))]
    IN IF ~cats.ok \/ ~names.ok THEN LoggedFailure(b, tbl, user)
       ELSE IF ~accs.ok \/ \E i \in 1..Len(accs.data) : accs.data[i].shape = "no_attributes"
            THEN LoggedFailure(b1, tbl, user)
       ELSE IF \E i \in 1..Len(accs.data) : accs.data[i].shape = "no_type"
            THEN LoggedFailure(b2, tbl, user)
       ELSE RefreshResult("ok", "", b3, save_data(b3, tbl, user))

(***************************************************************************)
(* get_category, get_source_account, get_destination_account                *)
(***************************************************************************)
Raise(e) == [st |-> "raise", exc |-> e, val |-> NoneVal]

Returns(v) == [st |-> "ok", exc |-> "", val |-> v]

\* the position of the last element equal to x, 0 when there is none
ListIndexLast(l, x, i) ==
    IF \E j \in i..Len(l) : l[j] = x
    THEN CHOOSE j \in i..Len(l) : l[j] = x /\ \A k \in i..Len(l) : l[k] = x => k <= j
    ELSE 0

\* list.index: the position of the first element equal to x, 0 for ValueError
RECURSIVE ListIndex(_, _, _)
ListIndex(l, x, i) ==
    IF i > Len(l) THEN 0 ELSE IF l[i] = x THEN i ELSE ListIndex(l, x, i + 1)

Lookup(b, field, token, user, not_found) ==
    IF user \notin DOMAIN b[field] THEN Raise("StartError")
    ELSE LET i == ListIndex([j \in 1..Len(b[field][user]) |-> slugify(b[field][user][j])],
                            slugify(token), 1)
         IN IF i = 0 THEN Raise(not_found) ELSE Returns(b[field][user][i])

get_category(b, category, user) == Lookup(b, "categories", category, user, "CategoryError")

get_source_account(b, account, user) ==
    Lookup(b, "source_accounts", account, user, "SourceError")

get_destination_account(b, account, user) ==
    Lookup(b, "destination_accounts", account, user, "DestinationError")

(***************************************************************************)
(* extract_info: the pattern                                                *)
(*   ^([a-zA-Z..\s]+)\s+([0-9-.\+\*\/\(\)]+)(?:\s+(word))?(?:\s+(word))?(?:\s+(word))?$ *)
(* on a text whose only white space is ' '.                                 *)
(***************************************************************************)
Letters == {"a", "b", "e", "f", "o", "x", "z", "A", "B", "C", "E", "F", "X", "Z",
            "a'", "A'", "o'"}

PatternAmountChars == Digits \cup {"-", ".", "+", "*", "/", "(", ")"}

\* the first position from i on whose symbol is not in cls; Len + 1 when none
RECURSIVE RunEnd(_, _, _)
RunEnd(text, i, cls) ==
    IF i <= Len(text) /\ text[i] \in cls THEN RunEnd(text, i + 1, cls) ELSE i

\* (?:\s+(word))? up to n times, then the end of the text
RECURSIVE TrailingWords(_, _, _)
TrailingWords(text, i, n) ==
    IF i > Len(text) THEN [ok |-> TRUE, words |-> <<>>]
    ELSE LET j == RunEnd(text, i, {" "})
             k == RunEnd(text, j, Letters)
             rest == TrailingWords(text, k, n - 1)
         IN IF n = 0 \/ j = i \/ k = j \/ ~rest.ok THEN [ok |-> FALSE, words |-> <<>>]
            ELSE [ok |-> TRUE, words |-> <<SubSeq(text, j, k - 1)>> \o rest.words]

RECURSIVE StripSpaces(_)
StripSpaces(s) ==
    IF s # <<>> /\ Head(s) = " " THEN StripSpaces(Tail(s))
    ELSE IF s # <<>> /\ s[Len(s)] = " " THEN StripSpaces(SubSeq(s, 1, Len(s) - 1))
    ELSE s

NoMatch == [matched |-> FALSE, g1 |-> NoneVal, g2 |-> NoneVal, g3 |-> NoneVal,
            g4 |-> NoneVal, g5 |-> NoneVal]

pattern_match(text) ==
    LET p == RunEnd(text, 1, Letters \cup {" "})
        q == RunEnd(text, p, PatternAmountChars)
        t == TrailingWords(text, q, 3)
        w(i) == IF i <= Len(t.words) THEN t.words[i] ELSE NoneVal
    IN IF p < 3 \/ p > Len(text) \/ q = p THEN NoMatch
       ELSE IF text[p - 1] # " " \/ ~t.ok THEN NoMatch
       ELSE [matched |-> TRUE, g1 |-> SubSeq(text, 1, p - 2), g2 |-> SubSeq(text, p, q - 1),
             g3 |-> w(1), g4 |-> w(2), g5 |-> w(3)]

NoInfo == [description |-> NoneVal, number |-> TupleVal, category |-> NoneVal,
           source |-> NoneVal, destination |-> NoneVal, type |-> ""]

\* st is "ok" (a dict is returned), "none" (None is returned) or "raise"
ParseResult(st, exc, info) == [st |-> st, exc |-> exc, info |-> info]

\* variant: an absent account counts as an asset account
IsAssetOrAbsent(b, user, name) == name = NoneVal \/ name \in Range(b.asset_accounts[user])

IsAsset(b, user, name) == name \in Range(b.asset_accounts[user])

\* a classification that looks at the destination only when the source is no asset
KindSourceFirst(b, user, source, destination) ==
    IF IsAsset(b, user, source) THEN "withdrawal"
    ELSE IF IsAsset(b, user, destination) THEN "deposit"
    ELSE "transfer"

Kind(b, user, source, destination) ==
    IF IsAsset(b, user, source) /\ ~IsAsset(b, user, destination) THEN "withdrawal"
    ELSE IF ~IsAsset(b, user, source) /\ IsAsset(b, user, destination) THEN "deposit"
    ELSE "transfer"

\* self.default_accounts[user]
DefaultAccount(b, user) ==
    IF user \in DOMAIN b.default_accounts
    THEN Returns(b.default_accounts[user]) ELSE Raise("KeyError")

\* token4 resolved as a source whatever the sign
FirstAccountUnsigned(b, user, m) ==
    IF m.g4 = NoneVal THEN DefaultAccount(b, user)
    ELSE get_source_account(b, m.g4, user)

\* the assignment of line 286 or of line 289
FirstAccount(b, user, m) ==
    IF m.g4 = NoneVal THEN DefaultAccount(b, user)
    ELSE IF m.g2[1] = "+" THEN get_destination_account(b, m.g4, user)
    ELSE get_source_account(b, m.g4, user)

\* the assignment of line 287 or of line 290
SecondAccount(b, user, m) ==
    IF m.g5 = NoneVal THEN Returns(NoneVal)
    ELSE IF m.g2[1] = "+" THEN get_source_account(b, m.g5, user)
    ELSE get_destination_account(b, m.g5, user)

CategoryOf(b, user, m) ==
    IF m.g3 = NoneVal THEN Returns(NoneVal) ELSE get_category(b, m.g3, user)

\* lines 292-301: the dict, from the two accounts in the order they were assigned
InfoDict(b, user, m, first, second, number, category) ==
    LET plus == m.g2[1] = "+"
        source == IF plus THEN second.val ELSE first.val
        destination == IF plus THEN first.val ELSE second.val
    IN [description |-> StripSpaces(m.g1), number |-> number,
        category |-> category.val, source |-> source, destination |-> destination,
        type |-> Kind(b, user, source, destination)]

\* variant: a category that is not found is left out of the transaction
ExtractMatchedLenient(b, user, m, first, second, number, category) ==
    IF first.st = "raise" THEN ParseResult("raise", first.exc, NoInfo)
    ELSE IF second.st = "raise" THEN ParseResult("raise", second.exc, NoInfo)
    ELSE IF number.k = "exc" THEN ParseResult("raise", number.exc, NoInfo)
    ELSE IF user \notin DOMAIN b.asset_accounts THEN ParseResult("raise", "KeyError", NoInfo)
    ELSE ParseResult("ok", "",
                     InfoDict(b, user, m, first, second, number,
                              IF category.st = "raise" THEN Returns(NoneVal) ELSE category))

\* the statements of lines 285-301 in their order: the first to raise ends the call
ExtractMatched(b, user, m, first, second, number, category) ==
    IF first.st = "raise" THEN ParseResult("raise", first.exc, NoInfo)
    ELSE IF second.st = "raise" THEN ParseResult("raise", second.exc, NoInfo)
    ELSE IF number.k = "exc" THEN ParseResult("raise", number.exc, NoInfo)
    ELSE IF category.st = "raise" THEN ParseResult("raise", category.exc, NoInfo)
    ELSE IF user \notin DOMAIN b.asset_accounts THEN ParseResult("raise", "KeyError", NoInfo)
    ELSE ParseResult("ok", "", InfoDict(b, user, m, first, second, number, category))

\* variant: the groups are read without testing the match
ExtractFromUnmatched(b, user, m) ==
    ExtractMatched(b, user, m, FirstAccount(b, user, m), SecondAccount(b, user, m),
                   safe_math_eval(m.g2), CategoryOf(b, user, m))

ExtractFrom(b, user, m) ==
    IF ~m.matched THEN ParseResult("none", "", NoInfo)
    ELSE ExtractMatched(b, user, m, FirstAccount(b, user, m), SecondAccount(b, user, m),
                        safe_math_eval(m.g2), CategoryOf(b, user, m))

extract_info(b, input_string, user) == ExtractFrom(b, user, pattern_match(input_string))

(***************************************************************************)
(* new_transaction.  outcome is what the ledger does with the POST: "ok"    *)
(* (status 200), "status" (any other status) or "network" (requests raises) *)
(***************************************************************************)
LedgerOutcomes == {"ok", "status", "network"}

\* st "ok": (response_message, tid) is returned; "none": None is returned
CallResult(st, exc, requests, logged) ==
    [st |-> st, exc |-> exc, requests |-> requests, logged |-> logged]

new_transaction(b, info, user, outcome) ==
    LET post == [method |-> "POST", path |-> "transactions", body |-> info]
    IN IF user \notin DOMAIN b.ff_api \/ user \notin DOMAIN b.ff_url
       THEN CallResult("raise", "KeyError", <<>>, FALSE)
       ELSE IF b.ff_url[user] = EmptyStr
            THEN CallResult("raise", "RequestException", <<>>, FALSE)
       ELSE IF info.number.k \in {"ellipsis", "complex"}
            THEN CallResult("raise", "TypeError", <<>>, FALSE)
       ELSE IF outcome = "network" THEN CallResult("raise", "RequestException", <<post>>, FALSE)
       ELSE IF outcome = "status" THEN CallResult("none", "", <<post>>, TRUE)
       ELSE CallResult("ok", "", <<post>>, FALSE)

\* lines 255-269: the id is sent for deletion; any status but 204 is logged
delete_transaction(b, transaction_id, user, outcome) ==
    LET delete == [method |-> "DELETE", path |-> "transactions", id |-> transaction_id]
    IN IF user \notin DOMAIN b.ff_api \/ user \notin DOMAIN b.ff_url
       THEN CallResult("raise", "KeyError", <<>>, FALSE)
       ELSE IF b.ff_url[user] = EmptyStr
            THEN CallResult("raise", "RequestException", <<>>, FALSE)
       ELSE IF outcome = "network"
            THEN CallResult("raise", "RequestException", <<delete>>, FALSE)
       ELSE CallResult("none", "", <<delete>>, outcome = "status")

\* the entry the PUT of update_transaction_<what> replaces, and its value
PutField(what) ==
    CASE what = "category" -> "category_name"
      [] what = "expense" -> "destination_id"
      [] OTHER -> "source_id"

PutRequest(transaction_id, field, value) ==
    <<[method |-> "PUT", path |-> "transactions", id |-> transaction_id,
       field |-> field, value |-> value]>>

\* lines 346-452, update_transaction_category, _asset, _expense and _revenue:
\* the transaction is read, written back with one entry replaced (a category
\* by its name, an account by its id in account_ids) and read again
update_transaction(b, what, transaction_id, name, user, outcome) ==
    IF user \notin DOMAIN b.ff_api \/ user \notin DOMAIN b.ff_url
    THEN CallResult("raise", "KeyError", <<>>, FALSE)
    ELSE IF b.ff_url[user] = EmptyStr \/ outcome = "network"
         THEN CallResult("raise", "RequestException", <<>>, FALSE)
    ELSE IF what = "category"
         THEN CallResult("ok", "", PutRequest(transaction_id, PutField(what), name),
                         outcome = "status")
    ELSE IF user \notin DOMAIN b.account_ids \/ name \notin DOMAIN b.account_ids[user]
         THEN CallResult("raise", "KeyError", <<>>, FALSE)
    ELSE CallResult("ok", "",
                    PutRequest(transaction_id, PutField(what), b.account_ids[user][name]),
                    outcome = "status")

(***************************************************************************)
(* The environment: what the ledger holds and what the users type.          *)
(***************************************************************************)
Ab == <<"A", "b">>

AbAccent == <<"a'", "b">>

Ex == <<"E", "x">>

Fo == <<"F", "o">>

FoAccent == <<"f", "o'">>

Co == <<"C", "o">>

Account(name, type, id) == [name |-> name, type |-> type, id |-> id, shape |-> "ok"]

AssetAb == Account(Ab, "asset", <<"1">>)

\* a revenue account whose name has the slug of the asset account's
RevenueAb == Account(AbAccent, "revenue", <<"2">>)

ExpenseEx == Account(Ex, "expense", <<"3">>)

AccountUniverse == {AssetAb, RevenueAb, ExpenseEx}

MaxAccounts == 2

AccountLists == UNION {[1..n -> AccountUniverse] : n \in 0..MaxAccounts}

Page(items, total_pages) == [ok |-> TRUE, data |-> items, total_pages |-> total_pages]

BadPage == [ok |-> FALSE, data |-> <<>>, total_pages |-> 0]

Malformed(item, shape) == [item EXCEPT !.shape = shape]

AccountReplies ==
    {<<Page(l, 1)>> : l \in AccountLists}
      \cup {<<Page(<<ExpenseEx>>, 2), Page(<<AssetAb>>, 2)>>,
            <<BadPage>>,
            <<Page(<<AssetAb>>, 2), BadPage>>,
            <<Page(<<AssetAb, Malformed(ExpenseEx, "no_attributes")>>, 1)>>,
            <<Page(<<AssetAb, Malformed(ExpenseEx, "no_type")>>, 1)>>}

Category(name) == [name |-> name, shape |-> "ok"]

CategoryReplies ==
    {<<Page(<<Category(Fo)>>, 1)>>,
     <<Page(<<Category(FoAccent)>>, 2), Page(<<Category(Fo)>>, 2)>>,
     <<BadPage>>,
     <<Page(<<Category(Fo)>>, 2), BadPage>>,
     <<Page(<<Malformed(Category(Fo), "no_attributes")>>, 1)>>}

\* amount expressions, as typed
Amounts ==
    {<<"1">>, <<"+", "1">>, <<"-", "1">>, <<"(", "1", ")">>, <<"1", "-", "2">>,
     <<"+", "2", "*", "3">>, <<"1", "/", "0">>, <<"(">>, <<"(", ")">>, <<"1", "a">>}

TypedWords == {<<"a", "b">>, <<"e", "x">>, <<"f", "o">>}

MaxTokens == 3

\* the words typed at a position after the amount: a category or an account
\* first, accounts after it
WordsAt(i) == IF i = 1 THEN {<<"f", "o">>, <<"a", "b">>} ELSE {<<"a", "b">>, <<"e", "x">>}

Tails ==
    UNION {{t \in [1..n -> TypedWords] : \A i \in 1..n : t[i] \in WordsAt(i)} :
             n \in 0..MaxTokens}

Line(tokens) == JoinWith(<<" ">>, tokens)

\* '<description> <amount> [token3] [token4] [token5]' and '<amount> [token] ...'
\* and lines of words only, without an amount
Lines ==
    {Line(d \o <<e>> \o t) : d \in {<<>>, <<Co>>}, e \in Amounts, t \in Tails}
        \cup {Line(<<Co>> \o t) : t \in Tails}

\* the texts of the lifecycle specification
SetupTexts == {<<"h">>, <<"h", "/">>}

CommandTexts == {<<"/start">>, <<"/update">>}

FewLines ==
    {Line(<<Co, <<"1">>, <<"f", "o">>, <<"a", "b">>, <<"e", "x">>>>),
     Line(<<Co, <<"1">>>>),
     Line(<<Co, <<"1", "/", "0">>>>),
     Line(<<<<"1">>, <<"a", "b">>, <<"e", "x">>>>),
     Line(<<Co>>)}

(***************************************************************************)
(* handlers.py.  An update is a text message or a callback query.  The      *)
(* record op tells what the handler of the current update did:              *)
(*   exc      "" when the handler returned, else the exception it raised    *)
(*   sent     the messages delivered to the chat, in order                  *)
(*   requests the transaction requests sent to the ledger, in order         *)
(*   logged   whether logger.error was called                               *)
(*   parse    the result of extract_info (echo_all) or the transaction     *)
(*            built by echo_transfer                                         *)
(*   refresh  the outcome of get_ff_data, "" when it was not called         *)
(*   ledger   the outcome of new_transaction, "" when it was not called     *)
(*   call     what process_callback_query read from the callback data       *)
(***************************************************************************)
NoUpdate == [kind |-> "none", user |-> "", text |-> <<>>]

\* what process_callback_query has read from call.data: the branch taken and
\* the values of transaction_id, of the category or account name and of kind
NoCall == [branch |-> "", transaction_id |-> <<>>, name |-> <<>>, kind |-> <<>>]

NoOp == [handler |-> "", user |-> "", text |-> <<>>, exc |-> "", sent |-> <<>>,
         requests |-> <<>>, logged |-> FALSE, parse |-> ParseResult("", "", NoInfo),
         refresh |-> "", ledger |-> "", call |-> NoCall]

Done(handler, upd) == [NoOp EXCEPT !.handler = handler, !.user = upd.user, !.text = upd.text]

\* a message delivered to the chat, with the callback data of its inline buttons
ToChatWith(text, markup) == [to |-> "chat_id", text |-> text, markup |-> markup]

ToChat(text) == ToChatWith(text, <<>>)

TypedReplies ==
    [e \in {"CategoryError", "SourceError", "DestinationError", "StartError"} |->
       CASE e = "CategoryError" -> "Add the category to FireFlyIII and run /update before!"
         [] e = "SourceError" -> "Add the source account to FireFlyIII and run /update before!"
         [] e = "DestinationError" ->
                "Add the destination account to FireFlyIII and run /update before!"
         [] e = "StartError" -> "Run /start first!"]

\* str.split(sep): the fields between the separators, empty ones included
RECURSIVE Split(_, _)
Split(text, sep) ==
    LET i == RunEnd(text, 1, Range(text) \ {sep})
    IN IF i > Len(text) THEN <<text>>
       ELSE <<SubSeq(text, 1, i - 1)>> \o Split(SubSeq(text, i + 1, Len(text)), sep)

Commands == {"/start", "/help", "/update", "/transactions", "/balance"}

\* the handler the transport calls for a text message: the registered next-step
\* handler if there is one, else the first message handler whose filter accepts it
\* variant: no handler of its own for the lines that begin with a digit
HandlerOfParserOnly(upd, steps) ==
    IF upd.kind = "callback" THEN "process_callback_query"
    ELSE IF upd.user \in DOMAIN steps THEN steps[upd.user]
    ELSE IF upd.text[1] = "/start" THEN "send_welcome"
    ELSE IF upd.text[1] = "/update" THEN "update_data"
    ELSE IF upd.text[1] \in Commands THEN "other_command"
    ELSE "echo_all"

HandlerOf(upd, steps) ==
    IF upd.kind = "callback" THEN "process_callback_query"
    ELSE IF upd.user \in DOMAIN steps THEN steps[upd.user]
    ELSE IF upd.text[1] = "/start" THEN "send_welcome"
    ELSE IF upd.text[1] = "/update" THEN "update_data"
    ELSE IF upd.text[1] \in Commands THEN "other_command"
    ELSE IF upd.text[1] \in Digits THEN "echo_transfer"
    ELSE "echo_all"

\* the end of a handler: the eviction, unless an exception left the handler before
Finish(b, o) ==
    /\ ff_bot' = IF o.exc = "" THEN clear_user_session(clear_user_data(b, o.user), o.user)
                 ELSE b
    /\ op' = o
    /\ inbox' = NoUpdate
    /\ UNCHANGED workers

Loaded(user) == load_data(load_session(ff_bot, session, user), data, user)

\* the reply to a transaction request: (response, tid) is unpacked and echoed
TransactionReply(called, nt) ==
    IF nt.st = "raise" THEN [called EXCEPT !.exc = nt.exc]
    ELSE IF nt.st = "none" THEN [called EXCEPT !.exc = "TypeError"]
    ELSE [called EXCEPT !.sent = <<ToChat("response")>>]

Called(o, nt) ==
    [o EXCEPT !.requests = nt.requests, !.logged = nt.logged, !.ledger = nt.st]

\* the except branches of echo_transfer pass the message, not chat_id, to send_message
TransferFailed(o, e) ==
    [o EXCEPT !.exc = "ApiTelegramException", !.parse = ParseResult("raise", e, NoInfo)]

TransferInfo(source, destination, number) ==
    [description |-> <<"Transfer">>, number |-> number, source |-> source.val,
     destination |-> destination.val, type |-> "transfer", category |-> NoneVal]

\* lines 176-193 of echo_transfer, for a text of three fields
TransferOf(b, upd, outcome, o, source, destination, number) ==
    IF source.st = "raise" THEN TransferFailed(o, source.exc)
    ELSE IF destination.st = "raise" THEN TransferFailed(o, destination.exc)
    ELSE IF number.k = "exc"
         THEN [o EXCEPT !.exc = number.exc, !.parse = ParseResult("raise", number.exc, NoInfo)]
    ELSE TransactionReply(
           Called([o EXCEPT !.parse = ParseResult("ok", "",
                                         TransferInfo(source, destination, number))],
                  new_transaction(b, TransferInfo(source, destination, number),
                                  upd.user, outcome)),
           new_transaction(b, TransferInfo(source, destination, number), upd.user, outcome))

TransferFields(b, upd, outcome, o, text) ==
    IF Len(text) # 3 THEN [o EXCEPT !.sent = <<ToChat("Invalid Input!")>>]
    ELSE TransferOf(b, upd, outcome, o, get_source_account(b, text[2], upd.user),
                    get_destination_account(b, text[3], upd.user),
                    safe_math_eval(text[1]))

\* lines 175-193 of echo_transfer
EchoTransferBody(b, upd, outcome) ==
    TransferFields(b, upd, outcome, Done("echo_transfer", upd), Split(upd.text, " "))

echo_transfer ==
    /\ inbox.kind = "message" /\ HandlerOf(inbox, next_step) = "echo_transfer"
    /\ \E outcome \in LedgerOutcomes :
         Finish(Loaded(inbox.user), EchoTransferBody(Loaded(inbox.user), inbox, outcome))
    /\ UNCHANGED <<session, data, next_step>>

\* lines 205-234 of echo_all, for the result info of extract_info
EchoAllReply(b, upd, outcome, o, info) ==
    IF info.st = "none"
    THEN [o EXCEPT !.sent = <<ToChat("Invalid Input!")>>, !.logged = TRUE]
    ELSE IF info.st = "raise"
         THEN IF info.exc \in DOMAIN TypedReplies
              THEN [o EXCEPT !.sent = <<ToChat(TypedReplies[info.exc])>>, !.logged = TRUE]
              ELSE [o EXCEPT !.exc = info.exc]
    ELSE TransactionReply(Called(o, new_transaction(b, info.info, upd.user, outcome)),
                          new_transaction(b, info.info, upd.user, outcome))

EchoAllParsed(b, upd, outcome, info) ==
    EchoAllReply(b, upd, outcome, [Done("echo_all", upd) EXCEPT !.parse = info], info)

\* lines 204-234 of echo_all
EchoAllBody(b, upd, outcome) ==
    EchoAllParsed(b, upd, outcome, extract_info(b, upd.text, upd.user))

echo_all ==
    /\ inbox.kind = "message" /\ HandlerOf(inbox, next_step) = "echo_all"
    /\ \E outcome \in LedgerOutcomes :
         Finish(Loaded(inbox.user), EchoAllBody(Loaded(inbox.user), inbox, outcome))
    /\ UNCHANGED <<session, data, next_step>>

(***************************************************************************)
(* Setup dialogue, /update and the callback of the default-account keyboard *)
(***************************************************************************)
ApiSuffix == <<"/api/v1/">>

send_welcome ==
    /\ inbox.kind = "message" /\ HandlerOf(inbox, next_step) = "send_welcome"
    /\ LET user == inbox.user
           b == Loaded(user)
           \* lines 39-58: the entries missing after the load are initialised
           b1 == [f \in DOMAIN b |->
                    IF user \in DOMAIN b[f] THEN b[f]
                    ELSE DictPut(b[f], user,
                                 IF f \in SessionFields THEN EmptyStr
                                 ELSE IF f = "account_ids" THEN EmptyDict ELSE <<>>)]
       IN Finish(b1, [Done("send_welcome", inbox) EXCEPT
                        !.sent = <<ToChat("Enter your FireFlyIII URL.")>>])
    /\ next_step' = DictPut(next_step, inbox.user, "process_url")
    /\ UNCHANGED <<session, data>>

process_url ==
    /\ inbox.kind = "message" /\ HandlerOf(inbox, next_step) = "process_url"
    /\ LET user == inbox.user
           text == inbox.text
           b == load_session(ff_bot, session, user)
           url == IF text[Len(text)] # "/" THEN text ELSE SubSeq(text, 1, Len(text) - 1)
           b1 == [b EXCEPT !.ff_url = DictPut(@, user, url \o ApiSuffix)]
           s == save_session(b1, session, user)
       IN /\ session' = s.session
          /\ Finish(s.bot, [Done("process_url", inbox) EXCEPT
                              !.sent = <<ToChat("Please enter your FireFlyIII API Key.")>>])
    /\ next_step' = DictPut(next_step, inbox.user, "process_api_key")
    /\ UNCHANGED data

SetAccountData(account) == <<"set", "_", "account", "_">> \o account

\* f"delete_{transaction_id}"
DeleteData(transaction_id) == <<"delete", "_">> \o transaction_id

\* f"set_category_{transaction_id}_{kind}" and the like of asset, expense, revenue
SetData(what, transaction_id, kind) ==
    <<"set", "_", what, "_">> \o transaction_id \o <<"_">> \o kind

\* f"category_{transaction_id}_{category}_{kind}" and the like of the accounts
NameData(what, transaction_id, name, kind) ==
    <<what, "_">> \o transaction_id \o <<"_">> \o name \o <<"_">> \o kind

\* the two rows of buttons under the message of a transaction
TransactionKeyboard(transaction_id, kind) ==
    <<DeleteData(transaction_id),
      SetData("category", transaction_id, kind),
      SetData("asset", transaction_id, kind),
      IF kind = <<"withdrawal">> THEN SetData("expense", transaction_id, kind)
      ELSE SetData("revenue", transaction_id, kind)>>

\* send_account_keyboard: one button per account of the list
AccountKeyboard(account_list) ==
    ToChatWith("Choose your default account:",
               [i \in 1..Len(account_list) |-> SetAccountData(account_list[i])])

\* the record of a handler that called get_ff_data with result r
Refreshed(o, r) == [o EXCEPT !.refresh = r.st, !.logged = (r.st = "logged")]

\* line 89: the keyboard is built from self.asset_accounts[user]
ApiKeyReply(o, r) ==
    IF r.st = "raise" THEN [o EXCEPT !.exc = r.exc]
    ELSE IF o.user \notin DOMAIN r.bot.asset_accounts THEN [o EXCEPT !.exc = "KeyError"]
    ELSE [o EXCEPT !.sent = <<AccountKeyboard(r.bot.asset_accounts[o.user])>>]

\* lines 87-91, r being the result of get_ff_data
ApiKeyRefreshed(upd, r) ==
    /\ data' = r.data
    /\ Finish(r.bot, ApiKeyReply(Refreshed(Done("process_api_key", upd), r), r))

\* lines 86-91, s being the result of save_session
ApiKeySaved(upd, s, cat_reply, acc_reply) ==
    /\ session' = s.session
    /\ ApiKeyRefreshed(upd, get_ff_data(s.bot, data, upd.user, cat_reply, acc_reply))

process_api_key ==
    /\ inbox.kind = "message" /\ HandlerOf(inbox, next_step) = "process_api_key"
    /\ \E cat_reply \in CategoryReplies, acc_reply \in AccountReplies :
         ApiKeySaved(inbox,
                     save_session([load_session(ff_bot, session, inbox.user) EXCEPT
                                     !.ff_api = DictPut(@, inbox.user, inbox.text)],
                                  session, inbox.user),
                     cat_reply, acc_reply)
    /\ next_step' = DictDel(next_step, inbox.user)

\* line 140: the reply does not depend on what get_ff_data did
UpdateReply(o, r) ==
    IF r.st = "raise" THEN [o EXCEPT !.exc = r.exc]
    ELSE [o EXCEPT !.sent = <<ToChat("Categories and accounts updated!")>>]

\* lines 139-141, r being the result of get_ff_data
UpdateRefreshed(upd, r) ==
    /\ data' = r.data
    /\ Finish(r.bot, UpdateReply(Refreshed(Done("update_data", upd), r), r))

update_data ==
    /\ inbox.kind = "message" /\ HandlerOf(inbox, next_step) = "update_data"
    /\ \E cat_reply \in CategoryReplies, acc_reply \in AccountReplies :
         UpdateRefreshed(inbox, get_ff_data(Loaded(inbox.user), data, inbox.user,
                                            cat_reply, acc_reply))
    /\ UNCHANGED <<session, next_step>>

StartsWith(text, prefix) ==
    Len(text) >= Len(prefix) /\ SubSeq(text, 1, Len(prefix)) = prefix

\* lines 257-261, after the messages sent: the keyboard is removed and the five
\* last messages are deleted, which Telegram accepts (cleaned) or refuses
SetAccountEnd(o, sent, cleaned) ==
    IF cleaned
    THEN [o EXCEPT !.sent = sent \o
                     <<ToChat("Setup completed. Run /help to see the commands.")>>]
    ELSE [o EXCEPT !.sent = sent, !.exc = "ApiTelegramException"]

SetAccountSaved(o, s, cleaned) ==
    [bot |-> s.bot, session |-> s.session,
     op |-> SetAccountEnd(o,
              <<ToChat("Configuration saved successfully! Run /help to know how to use the bot.")>>,
              cleaned)]

\* variant: the name of the callback data is saved without the membership test
SetAccountBranchAny(b, tbl, upd, o, default_account, cleaned) ==
    IF upd.user \notin DOMAIN b.asset_accounts
    THEN [bot |-> b, session |-> tbl, op |-> [o EXCEPT !.exc = "KeyError"]]
    ELSE SetAccountSaved(o,
             save_session([b EXCEPT !.default_accounts =
                                      DictPut(@, upd.user, default_account)],
                          tbl, upd.user),
             cleaned)

\* lines 251-261: the branch of call.data starting with 'set_account_'
SetAccountBranch(b, tbl, upd, o, default_account, cleaned) ==
    IF upd.user \notin DOMAIN b.asset_accounts
    THEN [bot |-> b, session |-> tbl, op |-> [o EXCEPT !.exc = "KeyError"]]
    ELSE IF default_account \in Range(b.asset_accounts[upd.user])
         THEN SetAccountSaved(o,
                  save_session([b EXCEPT !.default_accounts =
                                           DictPut(@, upd.user, default_account)],
                               tbl, upd.user),
                  cleaned)
    ELSE [bot |-> b, session |-> tbl, op |-> SetAccountEnd(o, <<>>, cleaned)]

SetAccountDone(r) == session' = r.session /\ Finish(r.bot, r.op)

\* a branch that leaves the dictionaries and the session table as loaded
BranchDone(b, tbl, o) == [bot |-> b, session |-> tbl, op |-> o]

Read(o, branch, transaction_id, name, kind) ==
    [o EXCEPT !.call = [branch |-> branch, transaction_id |-> transaction_id,
                        name |-> name, kind |-> kind]]

\* lines 246-249: the branch of 'delete_'
DeleteBranch(o, d, cleaned) ==
    IF d.st = "raise" THEN [o EXCEPT !.requests = d.requests, !.exc = d.exc]
    ELSE IF ~cleaned
         THEN [o EXCEPT !.requests = d.requests, !.logged = d.logged,
                        !.exc = "ApiTelegramException"]
    ELSE [o EXCEPT !.requests = d.requests, !.logged = d.logged]

SelectTexts ==
    [what \in {"category", "asset", "expense", "revenue"} |->
       CASE what = "category" -> "Select a category:"
         [] what = "asset" -> "Select the asset account:"
         [] what = "expense" -> "Select an expense account:"
         [] what = "revenue" -> "Select a revenue account:"]

\* the dictionary whose list of the user makes the buttons of a keyboard
ListOf(b, what) ==
    CASE what = "category" -> b.categories
      [] what = "asset" -> b.asset_accounts
      [] what = "expense" -> b.expense_accounts
      [] what = "revenue" -> b.revenue_accounts

\* lines 262-268, 288-294, 313-319, 338-344: the branches of 'set_category_',
\* 'set_asset_', 'set_expense_' and 'set_revenue_'; fields is call.data.split('_')
SetBranch(b, user, o, branch, what, fields) ==
    IF Len(fields) # 4 THEN [o EXCEPT !.exc = "ValueError"]
    ELSE IF user \notin DOMAIN ListOf(b, what)
         THEN [Read(o, branch, fields[3], <<>>, fields[4]) EXCEPT !.exc = "KeyError"]
    ELSE [Read(o, branch, fields[3], <<>>, fields[4]) EXCEPT
            !.sent = <<ToChatWith(SelectTexts[what],
                         [i \in 1..Len(ListOf(b, what)[user]) |->
                            NameData(what, fields[3], ListOf(b, what)[user][i], fields[4])])>>]

\* the message of the transaction is edited and gets its keyboard again
NameUpdated(o, u, cleaned) ==
    IF u.st = "raise" THEN [o EXCEPT !.requests = u.requests, !.exc = u.exc]
    ELSE IF ~cleaned
         THEN [o EXCEPT !.requests = u.requests, !.logged = u.logged,
                        !.exc = "ApiTelegramException"]
    ELSE [o EXCEPT !.requests = u.requests, !.logged = u.logged,
                   !.sent = <<ToChatWith("response",
                                TransactionKeyboard(o.call.transaction_id, o.call.kind))>>]

\* lines 270-286, 296-311, 321-336, 346-362: the branches of 'category_',
\* 'asset_', 'expense_' and 'revenue_'
NameBranch(b, user, o, what, fields, outcome, cleaned) ==
    IF Len(fields) # 4 THEN [o EXCEPT !.exc = "ValueError"]
    ELSE NameUpdated(Read(o, what, fields[2], fields[3], fields[4]),
                     update_transaction(b, what, fields[2], fields[3], user, outcome),
                     cleaned)

\* the first prefix among lines 246-346 that call.data starts with
BranchOf(text) ==
    LET starts(p) == StartsWith(text, p)
    IN CASE starts(<<"delete", "_">>) -> "delete"
         [] starts(<<"set", "_", "account", "_">>) -> "set_account"
         [] starts(<<"set", "_", "category", "_">>) -> "set_category"
         [] starts(<<"category", "_">>) -> "category"
         [] starts(<<"set", "_", "asset", "_">>) -> "set_asset"
         [] starts(<<"asset", "_">>) -> "asset"
         [] starts(<<"set", "_", "expense", "_">>) -> "set_expense"
         [] starts(<<"expense", "_">>) -> "expense"
         [] starts(<<"set", "_", "revenue", "_">>) -> "set_revenue"
         [] starts(<<"revenue", "_">>) -> "revenue"
         [] OTHER -> ""

CallbackBranch(b, tbl, upd, o, branch, fields, outcome, cleaned) ==
    IF branch = "delete"
    THEN BranchDone(b, tbl,
                    DeleteBranch(Read(o, branch, fields[2], <<>>, <<>>),
                                 delete_transaction(b, fields[2], upd.user, outcome),
                                 cleaned))
    ELSE IF branch = "set_account"
         THEN SetAccountBranch(b, tbl, upd, Read(o, branch, <<>>, fields[3], <<>>),
                               fields[3], cleaned)
    ELSE IF branch \in {"set_category", "set_asset", "set_expense", "set_revenue"}
         THEN BranchDone(b, tbl, SetBranch(b, upd.user, o, branch, fields[2][1], fields))
    ELSE IF branch \in {"category", "asset", "expense", "revenue"}
         THEN BranchDone(b, tbl,
                         NameBranch(b, upd.user, o, branch, fields, outcome, cleaned))
    ELSE BranchDone(b, tbl, o)

process_callback_query ==
    /\ inbox.kind = "callback"
    /\ \E cleaned \in BOOLEAN, outcome \in LedgerOutcomes :
         SetAccountDone(CallbackBranch(Loaded(inbox.user), session, inbox,
                                       Done("process_callback_query", inbox),
                                       BranchOf(inbox.text), Split(inbox.text, "_"),
                                       outcome, cleaned))
    /\ UNCHANGED <<data, next_step>>

(***************************************************************************)
(* The transport: it delivers one update at a time and calls its handler    *)
(* to completion before the next (section 5 of the specification).          *)
(***************************************************************************)
Receive(kind, user, text) ==
    /\ inbox.kind = "none" /\ op = NoOp
    /\ inbox' = [kind |-> kind, user |-> user, text |-> text]
    /\ UNCHANGED <<ff_bot, session, data, next_step, op, workers>>

\* the handler has returned (or raised) and the transport polls again
Return ==
    /\ inbox.kind = "none" /\ op # NoOp
    /\ op' = NoOp
    /\ UNCHANGED <<ff_bot, session, data, next_step, inbox, workers>>

ActiveUsers == {"u1"}

ReceiveText ==
    \E user \in ActiveUsers :
      \E text \in (IF user \in DOMAIN next_step THEN SetupTexts
                   ELSE CommandTexts \cup FewLines) :
        Receive("message", user, text)

ReceiveCallback ==
    \E user \in ActiveUsers, account \in {Ab, Ex} :
      Receive("callback", user, SetAccountData(account))

\* the worker threads of the transport's pool, which run the handlers
Workers == {"w1", "w2"}

\* a worker between two handlers; pc is the statement it is at
IdleWorker ==
    [pc |-> "idle", handler |-> "", text |-> <<>>, cat_reply |-> <<>>, acc_reply |-> <<>>,
     outcome |-> "", info |-> ParseResult("", "", NoInfo), exc |-> "", logged |-> FALSE,
     saved |-> EmptyDict]

NoWorkers == [w \in Workers |-> IdleWorker]

Init ==
    /\ ff_bot = NewBot
    /\ workers = NoWorkers
    /\ session = EmptyDict
    /\ data = EmptyDict
    /\ next_step = EmptyDict
    /\ inbox = NoUpdate
    /\ op = NoOp

Next ==
    \/ ReceiveText
    \/ ReceiveCallback
    \/ send_welcome
    \/ process_url
    \/ process_api_key
    \/ update_data
    \/ echo_transfer
    \/ echo_all
    \/ process_callback_query
    \/ Return

Spec == Init /\ [][Next]_vars

(***************************************************************************)
(* The text handlers on their own: the user has been through the setup or   *)
(* not, the ledger has been fetched or not, and any line is typed.          *)
(***************************************************************************)
SetUpSession(default_account) ==
    db_save_session(EmptyDict, "u1", <<"h">> \o ApiSuffix, <<"k">>, default_account)

ParseSessions == {EmptyDict, SetUpSession(EmptyStr), SetUpSession(Ab)}

\* the data tables a refresh of a set-up user leaves behind
ParseData ==
    {get_ff_data(load_session(NewBot, SetUpSession(EmptyStr), "u1"), EmptyDict, "u1",
                 c, a).data : c \in CategoryReplies, a \in AccountReplies}

\* a snapshot is persisted only for a user with a session, and a default
\* account is chosen only among the asset accounts of a persisted snapshot
InitParse ==
    /\ ff_bot = NewBot
    /\ workers = NoWorkers
    /\ session \in ParseSessions
    /\ data \in ParseData
    /\ session = EmptyDict => data = EmptyDict
    /\ session = SetUpSession(Ab) => data # EmptyDict
    /\ next_step = EmptyDict
    /\ inbox = NoUpdate
    /\ op = NoOp

ReceiveLine == \E user \in ActiveUsers, text \in Lines : Receive("message", user, text)

NextParse ==
    \/ ReceiveLine
    \/ echo_transfer
    \/ echo_all
    \/ Return

SpecParse == InitParse /\ [][NextParse]_vars

(***************************************************************************)
(* A second user.  The handlers run for u1 while the tables hold the rows   *)
(* of u2 and the dictionaries hold the entries a handler of u2 left behind  *)
(* when it ended by an exception.                                           *)
(***************************************************************************)
OtherUser == "u2"

OtherSession == db_save_session(EmptyDict, OtherUser, <<"g">> \o ApiSuffix, <<"k">>, Ex)

OtherData ==
    get_ff_data(load_session(NewBot, OtherSession, OtherUser), EmptyDict, OtherUser,
                <<Page(<<Category(FoAccent)>>, 1)>>,
                <<Page(<<ExpenseEx, RevenueAb>>, 1)>>).data

OtherMemory == load_data(load_session(NewBot, OtherSession, OtherUser), OtherData, OtherUser)

InitTwo ==
    /\ ff_bot = OtherMemory
    /\ session = OtherSession
    /\ data = OtherData
    /\ next_step = EmptyDict
    /\ inbox = NoUpdate
    /\ op = NoOp
    /\ workers = NoWorkers

SpecTwo == InitTwo /\ [][Next]_vars

(***************************************************************************)
(* The keyboards.  The user has been through the setup, the ledger has been *)
(* fetched, and the user taps the buttons of the keyboards the bot builds   *)
(* for the transactions it has created.                                     *)
(***************************************************************************)
\* names as the ledger lets its users choose them
FoOut == <<"F", "o", "_", "o", "u", "t">>

AbOld == <<"A", "b", "_", "o", "l", "d">>

AssetAbOld == Account(AbOld, "asset", <<"4">>)

ButtonData ==
    {get_ff_data(load_session(NewBot, SetUpSession(Ab), "u1"), EmptyDict, "u1", c, a).data :
       c \in {<<Page(<<Category(Fo)>>, 1)>>, <<Page(<<Category(Fo), Category(FoOut)>>, 1)>>},
       a \in {<<Page(<<AssetAb, ExpenseEx, RevenueAb>>, 1)>>,
              <<Page(<<AssetAb, AssetAbOld, ExpenseEx, RevenueAb>>, 1)>>}}

\* the ids the ledger gives to transactions and the types of extract_info
TransactionIds == {<<"7">>, <<"1", "2">>}

Kinds == {<<"withdrawal">>, <<"deposit">>, <<"transfer">>}

\* the callback data of the keyboards made for the user with the lists held
\* in the data table
ButtonsOf(user) ==
    {SetAccountData(n) : n \in Range(ListOf(load_data(NewBot, data, user), "asset")[user])}
      \cup UNION {Range(TransactionKeyboard(t, k)) : t \in TransactionIds, k \in Kinds}
      \cup UNION {{NameData(what, t, n, k) :
                     t \in TransactionIds, k \in Kinds,
                     n \in Range(ListOf(load_data(NewBot, data, user), what)[user])} :
                  what \in {"category", "asset", "expense", "revenue"}}

InitButtons ==
    /\ ff_bot = NewBot
    /\ workers = NoWorkers
    /\ session = SetUpSession(Ab)
    /\ data \in ButtonData
    /\ next_step = EmptyDict
    /\ inbox = NoUpdate
    /\ op = NoOp

ReceiveButton ==
    \E user \in ActiveUsers : \E text \in ButtonsOf(user) : Receive("callback", user, text)

NextButtons ==
    \/ ReceiveButton
    \/ process_callback_query
    \/ Return

SpecButtons == InitButtons /\ [][NextButtons]_vars

(***************************************************************************)
(* Two handlers of the same user in flight.  The transport hands every     *)
(* update to a pool of two worker threads, so the handlers of two updates   *)
(* run at once on the one FireFlyTelegram object.  A step is one statement  *)
(* of the handler (a call of load_session, load_data, extract_info,         *)
(* save_data, clear_user_data or clear_user_session is taken as one step);  *)
(* each worker handles one update.                                          *)
(***************************************************************************)
ConcUser == "u1"

ConcUpdate(text) == [kind |-> "message", user |-> ConcUser, text |-> text]

ConcCategoryReplies ==
    {<<Page(<<Category(Fo)>>, 1)>>, <<Page(<<Category(FoAccent)>>, 1)>>, <<BadPage>>,
     <<Page(<<Category(FoAccent)>>, 2), Page(<<Category(Fo)>>, 2)>>,
     <<Page(<<>>, 0)>>}

ConcAccountReplies ==
    {<<Page(<<AssetAb>>, 1)>>, <<Page(<<RevenueAb, ExpenseEx>>, 1)>>,
     <<Page(<<AssetAb, Malformed(ExpenseEx, "no_type")>>, 1)>>}

ConcLines == {Line(<<Co, <<"1">>, <<"f", "o">>, <<"a", "b">>>>), Line(<<Co>>)}

\* the snapshot an earlier refresh has persisted
ConcData ==
    get_ff_data(load_session(NewBot, SetUpSession(EmptyStr), ConcUser), EmptyDict, ConcUser,
                <<Page(<<Category(Fo)>>, 1)>>, <<Page(<<AssetAb, ExpenseEx>>, 1)>>).data

InitConc ==
    /\ ff_bot = NewBot
    /\ session = SetUpSession(Ab)
    /\ data = ConcData
    /\ next_step = EmptyDict
    /\ inbox = NoUpdate
    /\ op = NoOp
    /\ workers = NoWorkers

At(w, pc) == workers[w].pc = pc

Step(w, rec) == workers' = [workers EXCEPT ![w] = rec]

Goto(w, pc) == Step(w, [workers[w] EXCEPT !.pc = pc])

\* an exception leaves the handler: the statements after it are not run
Crash(w, e) == Step(w, [workers[w] EXCEPT !.pc = "crashed", !.exc = e])

\* lines 171-172 of get_ff_data: the except branch, then the caller goes on
LoggedAt(w) == Step(w, [workers[w] EXCEPT !.pc = "reply", !.logged = TRUE])

\* the worker takes an update: /update with what the ledger will answer, or a line
Dispatch ==
    \E w \in Workers :
      /\ At(w, "idle")
      /\ \/ \E c \in ConcCategoryReplies, a \in ConcAccountReplies :
              Step(w, [IdleWorker EXCEPT !.pc = "load_session", !.handler = "update_data",
                                         !.text = <<"/update">>,
                                         !.cat_reply = c, !.acc_reply = a])
         \/ \E text \in ConcLines, outcome \in LedgerOutcomes :
              Step(w, [IdleWorker EXCEPT !.pc = "load_session", !.handler = "echo_all",
                                         !.text = text, !.outcome = outcome])
      /\ UNCHANGED <<ff_bot, session, data, next_step, inbox, op>>

LoadSession ==
    \E w \in Workers :
      /\ At(w, "load_session")
      /\ ff_bot' = load_session(ff_bot, session, ConcUser)
      /\ Goto(w, "load_data")
      /\ UNCHANGED <<session, data, next_step, inbox, op>>

LoadData ==
    \E w \in Workers :
      /\ At(w, "load_data")
      /\ ff_bot' = load_data(ff_bot, data, ConcUser)
      /\ Goto(w, IF workers[w].handler = "update_data" THEN "headers" ELSE "extract_info")
      /\ UNCHANGED <<session, data, next_step, inbox, op>>

\* line 137 of get_ff_data, outside the try
Headers ==
    \E w \in Workers :
      /\ At(w, "headers")
      /\ IF ConcUser \in DOMAIN ff_bot.ff_api THEN Goto(w, "fetch_categories")
         ELSE Crash(w, "KeyError")
      /\ UNCHANGED <<ff_bot, session, data, next_step, inbox, op>>

\* self.ff_url[user] + path and the paginated GET
Fetched(w, reply, pc) ==
    IF ConcUser \in DOMAIN ff_bot.ff_url /\ fetch_all_pages(reply).ok
    THEN Goto(w, pc) ELSE LoggedAt(w)

\* line 154
FetchCategories ==
    \E w \in Workers :
      /\ At(w, "fetch_categories")
      /\ Fetched(w, workers[w].cat_reply, "categories")
      /\ UNCHANGED <<ff_bot, session, data, next_step, inbox, op>>

\* one assignment self.<field>[user] = value of the try block, or the
\* exception its right-hand side raises
Assign(w, ok, field, value, pc) ==
    IF ok THEN /\ ff_bot' = [ff_bot EXCEPT ![field] = DictPut(@, ConcUser, value)]
               /\ Goto(w, pc)
    ELSE /\ LoggedAt(w)
         /\ UNCHANGED ff_bot

\* line 155
SetCategories ==
    \E w \in Workers :
      /\ At(w, "categories")
      /\ Assign(w, extract_attributes(fetch_all_pages(workers[w].cat_reply).data).ok,
                "categories",
                extract_attributes(fetch_all_pages(workers[w].cat_reply).data).val,
                "fetch_accounts")
      /\ UNCHANGED <<session, data, next_step, inbox, op>>

\* line 158
FetchAccounts ==
    \E w \in Workers :
      /\ At(w, "fetch_accounts")
      /\ Fetched(w, workers[w].acc_reply, "account_ids")
      /\ UNCHANGED <<ff_bot, session, data, next_step, inbox, op>>

HasShape(accounts, shape) == \E i \in 1..Len(accounts) : accounts[i].shape = shape

\* line 159
SetAccountIds ==
    \E w \in Workers :
      /\ At(w, "account_ids")
      /\ Assign(w, ~HasShape(fetch_all_pages(workers[w].acc_reply).data, "no_attributes"),
                "account_ids",
                AccountIdsOf(fetch_all_pages(workers[w].acc_reply).data, EmptyDict),
                "source_accounts")
      /\ UNCHANGED <<session, data, next_step, inbox, op>>

\* lines 162-166: the field assigned, the types it keeps, the statement after it
AccountListSteps ==
    [source_accounts |-> [types |-> SourceTypes, next |-> "destination_accounts"],
     destination_accounts |-> [types |-> DestinationTypes, next |-> "asset_accounts"],
     asset_accounts |-> [types |-> {"asset"}, next |-> "expense_accounts"],
     expense_accounts |-> [types |-> {"expense"}, next |-> "revenue_accounts"],
     revenue_accounts |-> [types |-> {"revenue"}, next |-> "save_data"]]

SetAccountList ==
    \E w \in Workers :
      /\ workers[w].pc \in DOMAIN AccountListSteps
      /\ Assign(w, ~HasShape(fetch_all_pages(workers[w].acc_reply).data, "no_type"),
                workers[w].pc,
                NamesOfType(fetch_all_pages(workers[w].acc_reply).data,
                            AccountListSteps[workers[w].pc].types),
                AccountListSteps[workers[w].pc].next)
      /\ UNCHANGED <<session, data, next_step, inbox, op>>

\* line 169: save_data writes what the dictionaries hold now; a missing entry
\* is a KeyError that the except branch logs
SaveData ==
    \E w \in Workers :
      /\ At(w, "save_data")
      /\ IF \A f \in DataFields : ConcUser \in DOMAIN ff_bot[f]
         THEN /\ data' = save_data(ff_bot, data, ConcUser)
              /\ Step(w, [workers[w] EXCEPT !.pc = "reply",
                                            !.saved = save_data(ff_bot, data, ConcUser)])
         ELSE /\ LoggedAt(w)
              /\ UNCHANGED data
      /\ UNCHANGED <<ff_bot, session, next_step, inbox, op>>

\* line 139 of update_data
Reply ==
    \E w \in Workers :
      /\ At(w, "reply")
      /\ Goto(w, "clear_user_data")
      /\ UNCHANGED <<ff_bot, session, data, next_step, inbox, op>>

\* variant: the parser drops the working snapshot it has read
ExtractInfoEvicting ==
    \E w \in Workers :
      /\ At(w, "extract_info")
      /\ Step(w, [workers[w] EXCEPT
                    !.pc = "new_transaction",
                    !.info = extract_info(ff_bot, workers[w].text, ConcUser)])
      /\ ff_bot' = clear_user_data(ff_bot, ConcUser)
      /\ UNCHANGED <<session, data, next_step, inbox, op>>

\* line 205 of echo_all
ExtractInfo ==
    \E w \in Workers :
      /\ At(w, "extract_info")
      /\ Step(w, [workers[w] EXCEPT
                    !.pc = "new_transaction",
                    !.info = extract_info(ff_bot, workers[w].text, ConcUser)])
      /\ UNCHANGED <<ff_bot, session, data, next_step, inbox, op>>

Answered(w, o) == IF o.exc = "" THEN Goto(w, "clear_user_data") ELSE Crash(w, o.exc)

\* lines 206-234 of echo_all
NewTransaction ==
    \E w \in Workers :
      /\ At(w, "new_transaction")
      /\ Answered(w, EchoAllParsed(ff_bot, ConcUpdate(workers[w].text),
                                   workers[w].outcome, workers[w].info))
      /\ UNCHANGED <<ff_bot, session, data, next_step, inbox, op>>

ClearUserData ==
    \E w \in Workers :
      /\ At(w, "clear_user_data")
      /\ ff_bot' = clear_user_data(ff_bot, ConcUser)
      /\ Goto(w, "clear_user_session")
      /\ UNCHANGED <<session, data, next_step, inbox, op>>

ClearUserSession ==
    \E w \in Workers :
      /\ At(w, "clear_user_session")
      /\ ff_bot' = clear_user_session(ff_bot, ConcUser)
      /\ Goto(w, "done")
      /\ UNCHANGED <<session, data, next_step, inbox, op>>

NextConc ==
    \/ Dispatch
    \/ LoadSession
    \/ LoadData
    \/ Headers
    \/ FetchCategories
    \/ SetCategories
    \/ FetchAccounts
    \/ SetAccountIds
    \/ SetAccountList
    \/ SaveData
    \/ Reply
    \/ ExtractInfo
    \/ NewTransaction
    \/ ClearUserData
    \/ ClearUserSession

SpecConc == InitConc /\ [][NextConc]_vars

(***************************************************************************)
(* Properties of the text handlers (SpecParse)                              *)
(***************************************************************************)
\* the snapshot of a user as the data table holds it, decoded
PersistedSnapshot(user) == db_get_data(data, user).row

EchoHandlers == {"echo_all", "echo_transfer"}

\* the handler of the current update built a structured transaction
Produced == op.handler \in EchoHandlers /\ op.parse.st = "ok"

\* the amount expression of the line the current handler was given
AmountExpression ==
    IF op.handler = "echo_all" THEN pattern_match(op.text).g2
    ELSE Split(op.text, " ")[1]

\* C1: for every line the parser accepts, the amount of the transaction is the
\* absolute value of the evaluated amount expression, so it is never negative,
\* whatever the first character of the expression.
C1_AmountIsAbsoluteValue ==
    (Produced /\ safe_math_eval(AmountExpression).k = "num") =>
        op.parse.info.number =
            MkNum(AbsInt(safe_math_eval(AmountExpression).n),
                  safe_math_eval(AmountExpression).d, safe_math_eval(AmountExpression).f)

\* the kind of info is the one the asset list assigns to its two accounts
ClassifiedByAssets(info, assets) ==
    /\ info.type = "withdrawal" <=> (info.source \in assets /\ info.destination \notin assets)
    /\ info.type = "deposit" <=> (info.source \notin assets /\ info.destination \in assets)
    /\ info.type = "transfer" <=> (info.source \in assets <=> info.destination \in assets)

\* C2 as stated: for every structured transaction produced from a text line,
\* description-first or amount-first, the kind is withdrawal exactly when only
\* the source is an asset account, deposit exactly when only the destination
\* is, and transfer otherwise.
C2_KindOfEveryLine ==
    Produced =>
        ClassifiedByAssets(op.parse.info, Range(PersistedSnapshot(op.user).asset_accounts))

\* C2 amended: the transaction of a description-first line has the kind the
\* asset list assigns to its source and destination; the transaction of an
\* amount-first line is a transfer whatever its accounts are.
C2_KindOfParsedLine ==
    /\ (op.handler = "echo_all" /\ op.parse.st = "ok") =>
          ClassifiedByAssets(op.parse.info,
                             Range(PersistedSnapshot(op.user).asset_accounts))
    /\ (op.handler = "echo_transfer" /\ op.parse.st = "ok") =>
          op.parse.info.type = "transfer"

\* a description-first line whose source is no asset account and whose
\* destination is one has been classified
C2_Witness ==
    /\ op.handler = "echo_all" /\ op.parse.st = "ok"
    /\ op.parse.info.type = "deposit"
    /\ op.parse.info.source # NoneVal

\* name is an element of list with the slug of token
ResolvedIn(name, token, list) ==
    name \in Range(list) /\ slugify(name) = slugify(token)

\* the two accounts of info in the order of token4 and token5, and the lists
\* the sign assigns to them
BySign(m, info, snap) ==
    IF m.g2[1] = "+"
    THEN [acc4 |-> info.destination, list4 |-> snap.destination_accounts,
          acc5 |-> info.source, list5 |-> snap.source_accounts]
    ELSE [acc4 |-> info.source, list4 |-> snap.source_accounts,
          acc5 |-> info.destination, list5 |-> snap.destination_accounts]

TokensByRole(m, info, snap, r, default) ==
    /\ IF m.g3 = NoneVal THEN info.category = NoneVal
       ELSE ResolvedIn(info.category, m.g3, snap.categories)
    /\ IF m.g4 = NoneVal THEN r.acc4 = default
       ELSE ResolvedIn(r.acc4, m.g4, r.list4)
    /\ IF m.g5 = NoneVal THEN r.acc5 = NoneVal
       ELSE ResolvedIn(r.acc5, m.g5, r.list5)

\* C3: in a parsed line token3 is resolved against the categories whatever the
\* sign; when the amount expression begins with '+', token4 is resolved against
\* the destination accounts (the default account when absent) and token5
\* against the source accounts (no source when absent); otherwise token4 is
\* resolved against the source accounts (the default account when absent) and
\* token5 against the destination accounts (no destination when absent).
C3_TokensByRole ==
    (op.handler = "echo_all" /\ op.parse.st = "ok") =>
        TokensByRole(pattern_match(op.text), op.parse.info, PersistedSnapshot(op.user),
                     BySign(pattern_match(op.text), op.parse.info,
                            PersistedSnapshot(op.user)),
                     session[op.user].default_account)

\* a '+' line with the three tokens, whose token4 and token5 have the same slug
\* and resolve to different accounts
C3_Witness ==
    /\ op.handler = "echo_all" /\ op.parse.st = "ok"
    /\ pattern_match(op.text).g2[1] = "+"
    /\ op.parse.info.category # NoneVal
    /\ op.parse.info.destination = Ab
    /\ op.parse.info.source = AbAccent

\* what the specification calls the typed failures, as Python raises them
TypedFailures ==
    {"CategoryError", "SourceError", "DestinationError", "StartError",
     "Exception", "SyntaxError", "ZeroDivisionError", "TypeError"}

\* C4: whichever typed failure arises in echo_all or echo_transfer (category,
\* source or destination not found, session not initialized, unsafe
\* expression, evaluation error), the handler ends with exactly one chat
\* message and never with an uncaught exception.
C4_TypedFailureOneMessage ==
    (op.handler \in EchoHandlers /\ op.parse.st = "raise" /\ op.parse.exc \in TypedFailures)
        => (op.exc = "" /\ Len(op.sent) = 1)

\* C5: for a user with no persisted snapshot or no persisted session, every
\* grammatically valid line ends with the reply 'Run /start first!' and with
\* no other failure or crash.
C5_NoSnapshotRunStart ==
    (/\ op.handler = "echo_all" /\ op.parse.st # "none"
     /\ (op.user \notin DOMAIN data \/ op.user \notin DOMAIN session))
        => (op.exc = "" /\ op.sent = <<ToChat("Run /start first!")>>)

\* C6: when the ledger answers the creation of a transaction with a
\* non-success status, the failure is logged, the user gets one reply and the
\* handler does not crash.
C6_LedgerFailureReply ==
    op.ledger = "none" => (op.logged /\ op.exc = "" /\ Len(op.sent) = 1)

\* the positions of list whose element has the slug of token
Matches(token, list) == {i \in 1..Len(list) : slugify(list[i]) = slugify(token)}

Least(S) == CHOOSE i \in S : \A j \in S : i <= j

\* the result of an amount-first line of three fields, given the positions
\* that match its second and third field
TransferResolved(parse, snap, ms, md) ==
    /\ parse.exc # "StartError"
    /\ IF ms = {} THEN parse.exc = "SourceError"
       ELSE IF md = {} THEN parse.exc = "DestinationError"
       ELSE parse.st = "ok" =>
              /\ parse.info.source = snap.source_accounts[Least(ms)]
              /\ parse.info.destination = snap.destination_accounts[Least(md)]

\* the result of a description-first line with a token3, given the positions
\* that match it
CategoryResolved(parse, snap, mc) ==
    /\ parse.exc # "StartError"
    /\ mc = {} => parse.st = "raise"
    /\ parse.st = "ok" => parse.info.category = snap.categories[Least(mc)]

\* C10: a token resolves to the first candidate, in list order, whose slug is
\* the slug of the token, in the candidate's stored spelling; when no candidate
\* matches, the list being empty included, the failure is the one of the role
\* (category, source, destination) and never the one of a missing session.
C10_FirstMatchOrNotFound ==
    /\ (/\ op.handler = "echo_transfer" /\ Len(Split(op.text, " ")) = 3
        /\ op.user \in DOMAIN data)
          => TransferResolved(op.parse, PersistedSnapshot(op.user),
                 Matches(Split(op.text, " ")[2], PersistedSnapshot(op.user).source_accounts),
                 Matches(Split(op.text, " ")[3],
                         PersistedSnapshot(op.user).destination_accounts))
    /\ (/\ op.handler = "echo_all" /\ op.user \in DOMAIN data
        /\ pattern_match(op.text).matched /\ pattern_match(op.text).g3 # NoneVal)
          => CategoryResolved(op.parse, PersistedSnapshot(op.user),
                 Matches(pattern_match(op.text).g3, PersistedSnapshot(op.user).categories))

\* the typed 'ab' resolved to the first of two stored names with its slug
C10_Witness ==
    /\ op.handler = "echo_transfer" /\ op.parse.st = "ok"
    /\ op.user \in DOMAIN data
    /\ Len(PersistedSnapshot(op.user).source_accounts) = 2
    /\ op.parse.info.source = AbAccent

(***************************************************************************)
(* Properties of the refresh (Spec)                                         *)
(***************************************************************************)
\* C7: a refresh that fails at any point leaves the data table as it was
\* before the refresh started.
C7_FailedRefreshKeepsSnapshot ==
    [][op'.refresh \in {"logged", "raise"} => data' = data]_vars

\* a refresh failed for a user who had a persisted snapshot
C7_Witness ==
    /\ op.refresh = "logged"
    /\ op.user \in DOMAIN data
    /\ PersistedSnapshot(op.user).source_accounts # <<>>

\* C8: /update and the API-key step run to their end, the eviction of the
\* user's entries included, when the refresh fails, also for a user with no
\* snapshot or no credentials.
C8_RefreshFailureNoCrash ==
    (op.handler \in {"update_data", "process_api_key"} /\ op.refresh \in {"logged", "raise"})
        => (op.exc = "" /\ \A f \in DOMAIN ff_bot : op.user \notin DOMAIN ff_bot[f])

AccountListFields ==
    {"source_accounts", "destination_accounts", "asset_accounts",
     "expense_accounts", "revenue_accounts"}

SnapshotInvariant(snap) ==
    /\ Range(snap.source_accounts) =
           Range(snap.asset_accounts) \cup Range(snap.revenue_accounts)
    /\ Range(snap.destination_accounts) =
           Range(snap.asset_accounts) \cup Range(snap.expense_accounts)
    /\ \A f \in AccountListFields : Range(snap[f]) \subseteq DOMAIN snap.account_ids

\* C9: in every persisted snapshot the source accounts are exactly the asset
\* and revenue names, the destination accounts exactly the asset and expense
\* names, and every name of the five account lists is a key of account_ids.
C9_SnapshotInvariant ==
    \A u \in DOMAIN data : SnapshotInvariant(PersistedSnapshot(u))

\* a snapshot with a revenue and an expense account has been persisted
C9_Witness ==
    /\ "u1" \in DOMAIN data
    /\ PersistedSnapshot("u1").revenue_accounts # <<>>
    /\ PersistedSnapshot("u1").expense_accounts # <<>>

(***************************************************************************)
(* Lines outside the grammar                                               *)
(***************************************************************************)
AllIn(word, cls) == word # <<>> /\ \A i \in 1..Len(word) : word[i] \in cls

\* '<description words> <amount-expr> [token3] [token4] [token5]' over the
\* fields of a line whose fields are separated by single spaces
FitsGrammar(text) ==
    LET fields == Split(text, " ")
    IN \E a \in 2..Len(fields) :
         /\ \A i \in 1..(a - 1) : AllIn(fields[i], Letters)
         /\ AllIn(fields[a], PatternAmountChars)
         /\ Len(fields) - a <= 3
         /\ \A i \in (a + 1)..Len(fields) : AllIn(fields[i], Letters)

InvalidInputOnly ==
    /\ op.exc = "" /\ op.parse.st \in {"", "none"}
    /\ op.requests = <<>>
    /\ op.sent = <<ToChat("Invalid Input!")>>

ResolvedName(token, list) == list[Least(Matches(token, list))]

\* fields are '<amount> <account1> <account2>' and both accounts resolve, the
\* first as a source and the second as a destination, to asset accounts of snap
AmountAndTwoAssets(fields, snap) ==
    /\ Len(fields) = 3
    /\ AllIn(fields[1], PatternAmountChars)
    /\ Matches(fields[2], snap.source_accounts) # {}
    /\ Matches(fields[3], snap.destination_accounts) # {}
    /\ ResolvedName(fields[2], snap.source_accounts) \in Range(snap.asset_accounts)
    /\ ResolvedName(fields[3], snap.destination_accounts) \in Range(snap.asset_accounts)

TransferBetween(parse, fields, snap) ==
    /\ parse.st = "ok"
    /\ parse.info.type = "transfer"
    /\ parse.info.category = NoneVal
    /\ parse.info.source = ResolvedName(fields[2], snap.source_accounts)
    /\ parse.info.destination = ResolvedName(fields[3], snap.destination_accounts)

OneAssetEndpoint(m, snap, list) ==
    /\ m.matched /\ m.g4 # NoneVal /\ m.g5 = NoneVal
    /\ Matches(m.g3, snap.categories) # {}
    /\ safe_math_eval(m.g2).k # "exc"
    /\ Matches(m.g4, list) # {}
    /\ ResolvedName(m.g4, list) \in Range(snap.asset_accounts)

OneEndpoint(m, parse, snap) ==
    /\ (m.g2[1] # "+" /\ OneAssetEndpoint(m, snap, snap.source_accounts)) =>
          /\ parse.st = "ok" /\ parse.info.type = "withdrawal"
          /\ parse.info.source = ResolvedName(m.g4, snap.source_accounts)
          /\ parse.info.destination = NoneVal
    /\ (m.g2[1] = "+" /\ OneAssetEndpoint(m, snap, snap.destination_accounts)) =>
          /\ parse.st = "ok" /\ parse.info.type = "deposit"
          /\ parse.info.destination = ResolvedName(m.g4, snap.destination_accounts)
          /\ parse.info.source = NoneVal

\* C13: when token4 resolves to an asset account and there is no token5, the
\* absent endpoint counts as no asset account: without a leading '+' the kind
\* is withdrawal, the source is token4's stored name and there is no
\* destination; with a leading '+' the kind is deposit, the destination is
\* token4's stored name and there is no source, whatever the default account.
C13_OneEndpointKind ==
    (op.handler = "echo_all" /\ op.user \in DOMAIN data) =>
        OneEndpoint(pattern_match(op.text), op.parse, PersistedSnapshot(op.user))

\* a '+' line with token4 an asset account, no token5 and no default account
\* has been parsed
C13_Witness ==
    /\ op.handler = "echo_all" /\ op.user \in DOMAIN data
    /\ pattern_match(op.text).g2[1] = "+"
    /\ OneAssetEndpoint(pattern_match(op.text), PersistedSnapshot(op.user),
                        PersistedSnapshot(op.user).destination_accounts)
    /\ session[op.user].default_account = EmptyStr
    /\ op.parse.info.type = "deposit"

(***************************************************************************)
(* Eviction at the end of an operation                                     *)
(***************************************************************************)
MemoryFields ==
    {"ff_url", "ff_api", "default_accounts", "categories", "account_ids",
     "source_accounts", "destination_accounts", "asset_accounts",
     "expense_accounts", "revenue_accounts"}

Evicted(user) == \A f \in MemoryFields : user \notin DOMAIN ff_bot[f]

\* C14: when a handler has ended, normally or by a failure, no in-memory
\* dictionary holds an entry for its user.
C14_EvictedAtEnd == op.handler # "" => Evicted(op.user)

(***************************************************************************)
(* Properties of two handlers in flight (SpecConc)                         *)
(***************************************************************************)
\* the table a refresh that fetched the two replies persists when it runs alone
RefreshAlone(cat_reply, acc_reply) ==
    get_ff_data(load_session(NewBot, session, ConcUser), EmptyDict, ConcUser,
                cat_reply, acc_reply).data

\* what one single refresh has persisted: the one before the two workers
\* started, or the one of a worker
SingleRefreshes ==
    {ConcData} \cup
    {RefreshAlone(workers[v].cat_reply, workers[v].acc_reply) :
       v \in {x \in Workers : workers[x].handler = "update_data"}}

\* C15: whatever the interleaving of two refreshes of the same user, what a
\* refresh persists is the complete result of one single refresh, never a
\* mixture of fields of different refreshes.
C15_PersistedIsOneRefresh ==
    \A w \in Workers : workers[w].saved # EmptyDict => workers[w].saved \in SingleRefreshes

MissingEntry == {"StartError", "KeyError"}

\* C16: with a session and a snapshot persisted, no handler fails with the
\* failure of a missing session or with a missing dictionary entry while
\* another handler of the same user is in flight.
C16_NoFailureByTheOther ==
    \A w \in Workers :
      workers[w].exc \notin MissingEntry /\ workers[w].info.exc \notin MissingEntry

(***************************************************************************)
(* Saving and loading a snapshot                                           *)
(***************************************************************************)
\* worker w persists the working copy in this step
Saves(w) == workers[w].pc = "save_data" /\ workers'[w].saved # EmptyDict

\* the working copy a handler loads from table tbl is field for field snap
LoadsBack(tbl, snap) ==
    \A f \in DataFields : load_data(NewBot, tbl, ConcUser)[f][ConcUser] = snap[f][ConcUser]

\* C17: a snapshot that is saved and then loaded comes back equal field for
\* field (the categories and the five account lists in their order, the
\* mapping of names to ids), whatever row the user had before: the save
\* replaces it entirely.
C17_SaveThenLoad ==
    [][\A w \in Workers : Saves(w) => LoadsBack(data', ff_bot)]_vars

\* a snapshot with an accented name has replaced the earlier row of the user
C17_Witness ==
    /\ \E w \in Workers : workers[w].saved = data
    /\ data # ConcData
    /\ PersistedSnapshot(ConcUser).categories = <<FoAccent>>
    /\ data[ConcUser].categories # json_dumps_list(<<Fo>>)

(***************************************************************************)
(* The check of the characters of an amount                                *)
(***************************************************************************)
\* the three fields of an amount-first line whose two accounts resolve, so
\* that the handler evaluates the first field
EvaluatedFields(fields, snap) ==
    /\ Len(fields) = 3
    /\ Matches(fields[2], snap.source_accounts) # {}
    /\ Matches(fields[3], snap.destination_accounts) # {}

Unsafe(expr) == \E i \in 1..Len(expr) : expr[i] \notin allowed_chars

\* C18: an expression with a character outside the digits, '+', '-', '*',
\* '/', '(', ')', '.' and the space is rejected with the failure of an unsafe
\* expression, nothing is evaluated and nothing is sent to the ledger.
C18_UnsafeCharacterRejected ==
    (/\ op.handler = "echo_transfer" /\ op.user \in DOMAIN data
     /\ EvaluatedFields(Split(op.text, " "), PersistedSnapshot(op.user))
     /\ Unsafe(Split(op.text, " ")[1]))
        => (/\ op.parse = ParseResult("raise", "Exception", NoInfo)
            /\ op.exc = "Exception"
            /\ op.requests = <<>>)

\* '1a' was given to the evaluator
C18_Witness ==
    /\ op.handler = "echo_transfer" /\ op.user \in DOMAIN data
    /\ EvaluatedFields(Split(op.text, " "), PersistedSnapshot(op.user))
    /\ Split(op.text, " ")[1] = <<"1", "a">>
    /\ op.exc # ""

(***************************************************************************)
(* The outcomes of the evaluator                                           *)
(***************************************************************************)
\* the exceptions eval raises for an expression it cannot evaluate
EvaluationErrors == {"SyntaxError", "ZeroDivisionError", "TypeError"}

\* the outcome is a number, or the failure of an evaluation
NumberOrEvaluationError(v) ==
    v.k = "num" \/ (v.k = "exc" /\ v.exc \in EvaluationErrors)

\* C19: an expression of allowed characters only has two outcomes, a number
\* or the evaluation failure (a malformed expression, a division by zero);
\* so a line whose expression is given to the evaluator either ends with that
\* failure or has a number as its amount.
C19_NumberOrEvaluationError ==
    (/\ op.handler \in EchoHandlers /\ op.parse.st = "ok"
     /\ ~Unsafe(AmountExpression))
        => /\ NumberOrEvaluationError(safe_math_eval(AmountExpression))
           /\ op.parse.info.number.k = "num"

(***************************************************************************)
(* A token that does not resolve                                           *)
(***************************************************************************)
\* the failure of resolving token in the list of field with the failure role
\* ("" when the token is absent or resolves)
TokenFailure(token, user, field, role) ==
    IF token = NoneVal THEN ""
    ELSE IF user \notin DOMAIN data THEN "StartError"
    ELSE IF Matches(token, PersistedSnapshot(user)[field]) = {} THEN role
    ELSE ""

Token4Failure(m, user) ==
    IF m.g2[1] = "+"
    THEN TokenFailure(m.g4, user, "destination_accounts", "DestinationError")
    ELSE TokenFailure(m.g4, user, "source_accounts", "SourceError")

Token5Failure(m, user) ==
    IF m.g2[1] = "+"
    THEN TokenFailure(m.g5, user, "source_accounts", "SourceError")
    ELSE TokenFailure(m.g5, user, "destination_accounts", "DestinationError")

Token3Failure(m, user) == TokenFailure(m.g3, user, "categories", "CategoryError")

\* the parser ends with the failure of the token that fails, in the order
\* token4, token5, token3, and gives no transaction
RaisesTokenFailure(m, o, f4, f5, f3) ==
    /\ (f4 # "" \/ f5 # "" \/ f3 # "") =>
          /\ o.parse.st = "raise" /\ o.parse.info = NoInfo
          /\ o.requests = <<>>
    /\ f4 # "" => o.parse.exc = f4
    /\ (f4 = "" /\ f5 # "") => o.parse.exc = f5
    /\ (/\ f4 = "" /\ f5 = "" /\ f3 # ""
        /\ o.user \in DOMAIN session /\ safe_math_eval(m.g2).k # "exc")
          => /\ o.parse.exc = f3
             /\ o.sent = <<ToChat(TypedReplies[f3])>>

\* C20: when a token of a line does not resolve (category, source or
\* destination not found, or nothing loaded for the user), the parser ends
\* with that failure, builds no transaction with a default in the token's
\* place, and no createTransaction request is sent.
C20_ResolutionFailureRaised ==
    (op.handler = "echo_all" /\ pattern_match(op.text).matched) =>
        RaisesTokenFailure(pattern_match(op.text), op,
                           Token4Failure(pattern_match(op.text), op.user),
                           Token5Failure(pattern_match(op.text), op.user),
                           Token3Failure(pattern_match(op.text), op.user))

\* a line whose accounts resolve and whose category is not found
C20_Witness ==
    /\ op.handler = "echo_all" /\ pattern_match(op.text).matched
    /\ pattern_match(op.text).g5 # NoneVal
    /\ Token4Failure(pattern_match(op.text), op.user) = ""
    /\ Token5Failure(pattern_match(op.text), op.user) = ""
    /\ Token3Failure(pattern_match(op.text), op.user) = "CategoryError"
    /\ op.parse.exc = "CategoryError"

(***************************************************************************)
(* The parser changes nothing                                              *)
(***************************************************************************)
\* worker w runs the call of extract_info in this step
Parses(w) == workers[w].pc = "extract_info" /\ workers'[w].pc = "new_transaction"

\* C21: a call of the parser, with the resolvers and the evaluator it calls,
\* leaves the working copy in memory, the session table and the data table as
\* they were, whether it returns a transaction, returns None or raises.
C21_ParserIsPure ==
    [][\A w \in Workers : Parses(w) => UNCHANGED <<ff_bot, session, data>>]_vars

\* the parser has returned a transaction and the working copy of the user is
\* still in memory
C21_Witness ==
    \E w \in Workers :
      /\ workers[w].pc = "new_transaction"
      /\ workers[w].info.st = "ok"
      /\ \A f \in MemoryFields : ConcUser \in DOMAIN ff_bot[f]

(***************************************************************************)
(* The pages of a list                                                     *)
(***************************************************************************)
\* worker w has fetched the categories and every page was answered
FetchedCategories(w) ==
    /\ workers[w].handler = "update_data"
    /\ workers[w].pc \notin {"load_session", "load_data", "headers", "fetch_categories"}
    /\ \A i \in 1..Len(workers[w].cat_reply) : workers[w].cat_reply[i].ok

\* the pages of a list of total_pages pages: 1, then 2..total_pages
PagesOf(total_pages) ==
    IF total_pages < 2 THEN <<1>> ELSE [i \in 1..total_pages |-> i]

\* fetched is the whole list of reply: the pages in increasing order, each
\* once, and their items in that order
CompleteList(fetched, reply) ==
    /\ fetched.ok
    /\ fetched.requested = PagesOf(reply[1].total_pages)
    /\ fetched.data = Flatten([i \in 1..Len(fetched.requested) |-> reply[i].data])

\* C22: fetch_all_pages requests page 1 and then each of the pages
\* 2..total_pages once, in increasing order, and no other; it returns the
\* items of these pages in page order; it makes one request when total_pages
\* is 0 or 1.
C22_AllPagesInOrder ==
    \A w \in Workers :
      FetchedCategories(w) =>
          CompleteList(fetch_all_pages(workers[w].cat_reply), workers[w].cat_reply)

\* a list of two pages has been fetched
C22_Witness ==
    \E w \in Workers :
      /\ FetchedCategories(w)
      /\ workers[w].cat_reply[1].total_pages = 2
      /\ fetch_all_pages(workers[w].cat_reply).data = <<Category(FoAccent), Category(Fo)>>

(***************************************************************************)
(* What /update tells the user                                             *)
(***************************************************************************)
\* C23: /update answers 'Categories and accounts updated!' only when the
\* refresh has run to its end and saved the new snapshot.
C23_UpdatedOnlyWhenSaved ==
    (/\ op.handler = "update_data"
     /\ ToChat("Categories and accounts updated!") \in Range(op.sent))
        => op.refresh = "ok"

(***************************************************************************)
(* The entries of another user (SpecTwo)                                   *)
(***************************************************************************)
\* C24: whatever the handlers do for one user, the session row, the data row
\* and the in-memory entries of another user stay as they were: none is
\* created, changed or removed.
C24_OtherUserUntouched ==
    /\ OtherUser \in DOMAIN session /\ session[OtherUser] = OtherSession[OtherUser]
    /\ OtherUser \in DOMAIN data /\ data[OtherUser] = OtherData[OtherUser]
    /\ \A f \in MemoryFields :
         OtherUser \in DOMAIN ff_bot[f] /\ ff_bot[f][OtherUser] = OtherMemory[f][OtherUser]

\* the first user has been through the setup, has a snapshot and a default
\* account of its own, and a handler has just evicted its entries
C24_Witness ==
    /\ op.handler = "update_data" /\ op.refresh = "ok" /\ op.user # OtherUser
    /\ op.user \in DOMAIN data
    /\ session[op.user].default_account = Ab
    /\ Evicted(op.user)

(***************************************************************************)
(* The steps of the setup dialogue (Spec)                                  *)
(***************************************************************************)
\* the session row of user, a user without row having three empty fields
Stored(tbl, user) ==
    IF user \in DOMAIN tbl THEN tbl[user]
    ELSE [ff_url |-> EmptyStr, ff_api |-> EmptyStr, default_account |-> EmptyStr]

WithoutSlash(text) ==
    IF text[Len(text)] = "/" THEN SubSeq(text, 1, Len(text) - 1) ELSE text

\* the account named by the callback data is an asset account of the
\* persisted snapshot of user
ChoosesAsset(user, account) ==
    user \in DOMAIN data /\ account \in Range(PersistedSnapshot(user).asset_accounts)

\* the session table after handler o, which started with table tbl
SetupStep(o, tbl, after) ==
    /\ o.handler = "send_welcome" => after = tbl
    /\ o.handler = "process_url" =>
         after[o.user] = [Stored(tbl, o.user) EXCEPT
                            !.ff_url = WithoutSlash(o.text) \o ApiSuffix]
    /\ o.handler = "process_api_key" =>
         after[o.user] = [Stored(tbl, o.user) EXCEPT !.ff_api = o.text]
    /\ o.handler = "process_callback_query" =>
         IF ChoosesAsset(o.user, Split(o.text, "_")[3])
         THEN after[o.user] = [Stored(tbl, o.user) EXCEPT
                                 !.default_account = Split(o.text, "_")[3]]
         ELSE after = tbl

\* C25: the URL step writes the URL (the typed text without one trailing '/',
\* then '/api/v1/') and keeps the stored key and default account; the key
\* step writes the key and keeps the stored URL and default account; the
\* callback writes the default account and keeps the stored URL and key;
\* /start writes neither table.
C25_SetupStepsOwnField ==
    [][/\ SetupStep(op', session, session')
       /\ op'.handler = "send_welcome" => data' = data]_vars

\* the URL step has been run again by a user with a stored key and default
\* account, with a URL that ends with '/'
C25_Witness ==
    /\ op.handler = "process_url" /\ op.text = <<"h", "/">>
    /\ session[op.user] = [ff_url |-> <<"h">> \o ApiSuffix, ff_api |-> <<"h">>,
                           default_account |-> Ab]

(***************************************************************************)
(* The default account (Spec)                                              *)
(***************************************************************************)
\* the default account of user changes from table tbl to table after
DefaultChanges(tbl, after, user) ==
    Stored(after, user).default_account # Stored(tbl, user).default_account

\* C26: the persisted default account of a user changes only in the
\* callback of the account keyboard and only to a name that is among the
\* asset accounts of the user's snapshot; a callback whose name is no asset
\* account leaves the session table as it was.
C26_DefaultOnlyAssetByCallback ==
    [][/\ \A user \in ActiveUsers :
            DefaultChanges(session, session', user) =>
                /\ op'.handler = "process_callback_query" /\ op'.user = user
                /\ ChoosesAsset(user, session'[user].default_account)
       /\ (/\ op'.handler = "process_callback_query"
           /\ ~ChoosesAsset(op'.user, Split(op'.text, "_")[3]))
             => session' = session]_vars

\* a callback naming an account that is no asset account has been handled
\* for a user who has asset accounts and a default account
C26_Witness ==
    /\ op.handler = "process_callback_query"
    /\ Split(op.text, "_")[3] = Ex
    /\ op.user \in DOMAIN data
    /\ PersistedSnapshot(op.user).asset_accounts # <<>>
    /\ Ex \in Range(PersistedSnapshot(op.user).expense_accounts)
    /\ session[op.user].default_account = Ab

(***************************************************************************)
(* The callback data of the keyboards (SpecButtons)                        *)
(***************************************************************************)
\* process_callback_query has handled the callback data text of a button
Tapped(text) == op.handler = "process_callback_query" /\ op.text = text

ReadAs(branch, transaction_id, name, kind) ==
    op.call = [branch |-> branch, transaction_id |-> transaction_id,
               name |-> name, kind |-> kind]

\* C27: the callback data built for a button of a category, of an asset,
\* expense or revenue account, or of the account keyboard is read back by
\* process_callback_query as the transaction id, the name and the kind it
\* was built from, in the branch of its prefix, for every id, kind and name
\* of the user's snapshot.
C27_CallbackDataRoundTrips ==
    /\ \A what \in {"category", "asset", "expense", "revenue"} :
         \A t \in TransactionIds, k \in Kinds :
           \A n \in Range(ListOf(load_data(NewBot, data, ConcUser), what)[ConcUser]) :
             Tapped(NameData(what, t, n, k)) => ReadAs(what, t, n, k)
    /\ \A n \in Range(PersistedSnapshot(ConcUser).asset_accounts) :
         Tapped(SetAccountData(n)) => ReadAs("set_account", <<>>, n, <<>>)

====
